---- MODULE Spec2Model ----
(***************************************************************************)
(* A model of the swing-trader daily pipeline: the ticker universe and its *)
(* edits, feature and score batches, the daily job, sell signals, the      *)
(* rotation recommendation and the tax calculator.                         *)
(*                                                                         *)
(* Numbers.  TypeScript numbers are modelled exactly: a fraction is a pair *)
(* <<n, d>> with d > 0 (see Rat), Math.round is MathRound.  Scores are     *)
(* kept in hundredths of a point ("cp"), so 7.5 points is 750.             *)
(* A nullable number is Null, Num(v) or NaN.                               *)
(***************************************************************************)
EXTENDS Integers, Sequences, FiniteSets, TLC

VARIABLES
    tickers,      \* Ticker table: symbol -> row or NoRow
    featureRows,  \* Feature table for the evaluation date: symbol -> row or NoRow
    scoreRows,    \* Score table for the evaluation date: symbol -> row or NoRow
    signalRow,    \* Signal table for the evaluation date: the row or NoRow
    portfolio,    \* PortfolioState singleton: holding or NoRow
    jobs,         \* runDailyJob invocations: slot -> position and locals
    edits,        \* number of requests that edited the universe or the holding
    script,       \* a seed or backfill script run: position, symbol list, runs so far
    lastBatch,    \* what the last computeFeaturesForUniverse or scoreUniverse call did
    probe         \* a call of a pure function: its input and its result

vars == <<tickers, featureRows, scoreRows, signalRow, portfolio, jobs, edits,
          script, lastBatch, probe>>

sysvars == <<tickers, featureRows, scoreRows, signalRow, portfolio, jobs, edits,
             script, lastBatch>>

----------------------------------------------------------------------------
(* Bounds of the model *)

NumSymbols == 2
MaxRuns == 2
MaxEdits == 3
MaxScriptRuns == 2
TicksPerDay == 2

----------------------------------------------------------------------------
(* Values *)

NoRow == [k |-> "norow"]
Null == [k |-> "null"]
NaN == [k |-> "nan"]
Num(v) == [k |-> "num", v |-> v]
Pending == [k |-> "pending"]

IsNum(x) == x.k = "num"

\* JavaScript truthiness of a nullable number: null, NaN and 0 are falsy;
\* the value of a Num is a fraction <<n, d>>
Truthy(x) == x.k = "num" /\ x.v[1] # 0

SymbolNames == <<"AAA", "BBB", "CCC", "DDD">>
Symbols == {SymbolNames[i] : i \in 1..NumSymbols}

----------------------------------------------------------------------------
(* Exact arithmetic *)

RECURSIVE Gcd(_, _)
Gcd(a, b) == IF b = 0 THEN a ELSE Gcd(b, a % b)

Abs(a) == IF a < 0 THEN -a ELSE a

\* the fraction n / d in lowest terms with a positive denominator
Rat(n, d) ==
    LET g == Gcd(Abs(n), Abs(d))
        sgn == IF d < 0 THEN -1 ELSE 1
    IN  <<sgn * (n \div g), sgn * (d \div g)>>

RLt(a, b) == a[1] * b[2] < b[1] * a[2]
RLe(a, b) == a[1] * b[2] <= b[1] * a[2]
REq(a, b) == a[1] * b[2] = b[1] * a[2]
RAdd(a, b) ==
    LET l == (a[2] \div Gcd(a[2], b[2])) * b[2]
    IN  Rat(a[1] * (l \div a[2]) + b[1] * (l \div b[2]), l)
RNeg(a) == <<-a[1], a[2]>>
RSub(a, b) == RAdd(a, RNeg(b))
RMul(a, b) ==
    LET x == Rat(a[1], b[2])
        y == Rat(b[1], a[2])
    IN  Rat(x[1] * y[1], x[2] * y[2])
RDiv(a, b) == RMul(a, Rat(b[2], b[1]))

\* Math.round(n / d), d > 0: the nearest integer, halves towards +infinity
MathRound(n, d) == (2 * n + d) \div (2 * d)

\* Math.round(x * scale) / scale
RoundTo(x, scale) == Rat(MathRound(x[1] * scale, x[2]), scale)

Max(a, b) == IF a >= b THEN a ELSE b

RECURSIVE SumSeq(_)
SumSeq(s) == IF s = <<>> THEN 0 ELSE s[1] + SumSeq(Tail(s))

----------------------------------------------------------------------------
(* tax/rotation-cost.ts *)

SHORT_TERM_TAX_RATE == Rat(37, 100)
LONG_TERM_TAX_RATE == Rat(15, 100)
TRANSACTION_BUFFER == Rat(2, 100)
LongTermDays == 365
NearTermDays == 30

TaxRateMut(isLongTerm) == SHORT_TERM_TAX_RATE
TaxRate(isLongTerm) == IF isLongTerm THEN LONG_TERM_TAX_RATE ELSE SHORT_TERM_TAX_RATE

\* the early return of calculateTaxDrag for a position at a loss
AtLossMut(gainPct) == FALSE
AtLoss(gainPct) == RLe(gainPct, Rat(0, 1))

\* calculateTaxDrag(entryDate, entryPrice, currentPrice) at clock `now`;
\* times are in ticks, TicksPerDay ticks to the day
calculateTaxDrag(now, entryDate, entryPrice, currentPrice) ==
    LET holdingDays == (now - entryDate) \div TicksPerDay
        isLongTerm == holdingDays >= LongTermDays
        daysToLongTerm == Max(0, LongTermDays - holdingDays)
        gainPct == Rat(currentPrice - entryPrice, entryPrice)
        taxRate == TaxRate(isLongTerm)
        taxDragPct == RMul(gainPct, taxRate)
        potentialSavings == RMul(gainPct, RSub(SHORT_TERM_TAX_RATE, LONG_TERM_TAX_RATE))
        requiredEdge ==
            IF ~isLongTerm /\ daysToLongTerm <= NearTermDays /\ RLt(Rat(1, 10), gainPct)
            THEN RAdd(RAdd(taxDragPct, TRANSACTION_BUFFER), RMul(potentialSavings, Rat(1, 2)))
            ELSE RAdd(taxDragPct, TRANSACTION_BUFFER)
    IN  IF AtLoss(gainPct)
        THEN [holdingDays |-> holdingDays,
              isLongTerm |-> isLongTerm,
              estimatedGainPct |-> gainPct,
              estimatedTaxRate |-> Rat(0, 1),
              taxDragPct |-> Rat(0, 1),
              daysToLongTerm |-> daysToLongTerm,
              requiredEdgeToRotate |-> TRANSACTION_BUFFER]
        ELSE [holdingDays |-> holdingDays,
              isLongTerm |-> isLongTerm,
              estimatedGainPct |-> RoundTo(gainPct, 10000),
              estimatedTaxRate |-> taxRate,
              taxDragPct |-> RoundTo(taxDragPct, 10000),
              daysToLongTerm |-> daysToLongTerm,
              requiredEdgeToRotate |-> RoundTo(requiredEdge, 10000)]

----------------------------------------------------------------------------
(* engine/scoring.ts *)

DEFAULT_WEIGHTS ==
    [trend |-> 30, relativeStrength |-> 20, volatility |-> 15,
     drawdownRisk |-> 15, liquidity |-> 10, catalyst |-> 10]

ComponentNames ==
    {"trend", "relativeStrength", "volatility", "drawdownRisk", "liquidity", "catalyst"}

\* Each scorer returns its score in cp (hundredths of a point) with the
\* reasons and warnings it pushes.  maxScore * 0.5 unrounded is maxScore * 50.
Scored(score, reasons, warnings) ==
    [score |-> score, reasons |-> reasons, warnings |-> warnings]

\* Math.round(maxScore * n / d) in cp
RoundCp(maxScore, n, d) == 100 * MathRound(maxScore * n, d)

scoreTrend(features, maxScore) ==
    IF Truthy(features.sma50) /\ Truthy(features.sma200)
    THEN IF RLt(features.sma200.v, features.sma50.v)
         THEN Scored(RoundCp(maxScore, 8, 10), <<"SMA50 above SMA200 (bullish trend)">>, <<>>)
         ELSE Scored(RoundCp(maxScore, 3, 10), <<>>, <<"SMA50 below SMA200 (bearish trend)">>)
    ELSE Scored(RoundCp(maxScore, 5, 10), <<>>, <<>>)

scoreRelativeStrengthMut(features, maxScore) ==
    IF ~Truthy(features.rsVsSpy)
    THEN Scored(maxScore * 50, <<>>, <<>>)
    ELSE Scored(100 * MathRound(maxScore * features.rsVsSpy.v[1], features.rsVsSpy.v[2]),
                <<>>, <<>>)
scoreRelativeStrength(features, maxScore) ==
    IF ~Truthy(features.rsVsSpy)
    THEN Scored(maxScore * 50, <<>>, <<>>)
    ELSE LET pct == RMul(features.rsVsSpy.v, Rat(1, 100))
         IN  Scored(100 * MathRound(maxScore * pct[1], pct[2]),
                    IF RLt(Rat(7, 10), pct)
                    THEN <<"Strong relative strength vs SPY">> ELSE <<>>,
                    <<>>)

scoreVolatility(features, maxScore) ==
    IF ~Truthy(features.atr14)
    THEN Scored(maxScore * 50, <<>>, <<>>)
    ELSE Scored(RoundCp(maxScore, 7, 10), <<"Volatility within acceptable range">>, <<>>)

scoreDrawdownRisk(features, maxScore) ==
    IF ~Truthy(features.rsi14)
    THEN Scored(maxScore * 50, <<>>, <<>>)
    ELSE LET rsi == features.rsi14.v
         IN  IF RLt(rsi, Rat(30, 1))
             THEN Scored(RoundCp(maxScore, 3, 10), <<>>, <<"RSI oversold - high drawdown risk">>)
             ELSE IF RLt(Rat(70, 1), rsi)
             THEN Scored(RoundCp(maxScore, 4, 10), <<>>, <<"RSI overbought - pullback likely">>)
             ELSE IF RLe(Rat(40, 1), rsi) /\ RLe(rsi, Rat(60, 1))
             THEN Scored(RoundCp(maxScore, 9, 10), <<"RSI neutral - healthy setup">>, <<>>)
             ELSE Scored(RoundCp(maxScore, 5, 10), <<>>, <<>>)

scoreLiquidity(maxScore) ==
    Scored(RoundCp(maxScore, 8, 10), <<"Passed liquidity screen">>, <<>>)

scoreCatalyst(features, maxScore) ==
    IF Truthy(features.catalystMomentum) /\ features.catalystMomentum.v[1] > 0
    THEN Scored(RoundCp(maxScore, 8, 10), <<"Positive news catalyst momentum">>, <<>>)
    ELSE Scored(RoundCp(maxScore, 5, 10), <<>>, <<>>)

HorizonDays(swingScore) ==
    IF swingScore > 7000 THEN 40 ELSE IF swingScore > 5000 THEN 30 ELSE 20

Confidence(swingScore) ==
    IF swingScore > 7000 THEN "HIGH" ELSE IF swingScore > 5000 THEN "MEDIUM" ELSE "LOW"

computeProjection(features, swingScore) ==
    LET atr == IF Truthy(features.atr14) THEN features.atr14.v ELSE Rat(0, 1)
        horizonDays == HorizonDays(swingScore)
        expectedMovePct == RMul(atr, Rat(horizonDays, 14))
    IN  [horizonDays |-> horizonDays,
         expectedMovePct |-> RoundTo(expectedMovePct, 100),
         expectedRangePct |-> <<RoundTo(RMul(RNeg(expectedMovePct), Rat(1, 2)), 100),
                                RoundTo(RMul(expectedMovePct, Rat(3, 2)), 100)>>,
         confidence |-> Confidence(swingScore),
         notes |-> <<>>]

createEmptyScore(reason) ==
    [threw |-> FALSE,
     featuresRead |-> TRUE,
     swingScore |-> 0,
     components |-> [n \in {} |-> 0],
     topReasons |-> <<>>,
     warnings |-> <<reason>>,
     projection |-> [horizonDays |-> 0, expectedMovePct |-> Rat(0, 1),
                     expectedRangePct |-> <<Rat(0, 1), Rat(0, 1)>>,
                     confidence |-> "LOW", notes |-> <<reason>>]]

RECURSIVE SumOver(_, _)
SumOver(f, S) ==
    IF S = {} THEN 0
    ELSE LET x == CHOOSE y \in S : TRUE IN f[x] + SumOver(f, S \ {x})

FirstN(s, n) == IF Len(s) <= n THEN s ELSE SubSeq(s, 1, n)

\* the check of scoreCandidate on the Ticker row it reads first: the row may
\* be missing (ticker?.defenseClassification)
IsDefensePrimaryMut(ticker) == FALSE

IsDefensePrimary(ticker) ==
    ticker # NoRow /\ ticker.defenseClassification = "DEFENSE_PRIMARY"

\* scoreCandidate(symbol, asOfDate, weights): ticker is the symbol's Ticker
\* row and features its latest Feature row at or before asOfDate (or NoRow).
\* featuresRead tells whether the function got as far as reading features.
scoreCandidate(ticker, features, weights) ==
    IF IsDefensePrimary(ticker)
    THEN [threw |-> TRUE, featuresRead |-> FALSE,
          error |-> "Cannot score DEFENSE_PRIMARY ticker"]
    ELSE IF features = NoRow
    THEN createEmptyScore("No features available")
    ELSE LET trend == scoreTrend(features, weights.trend)
             rs == scoreRelativeStrength(features, weights.relativeStrength)
             vol == scoreVolatility(features, weights.volatility)
             dd == scoreDrawdownRisk(features, weights.drawdownRisk)
             liq == scoreLiquidity(weights.liquidity)
             cat == scoreCatalyst(features, weights.catalyst)
             components ==
                 [n \in ComponentNames |->
                     CASE n = "trend" -> trend.score
                       [] n = "relativeStrength" -> rs.score
                       [] n = "volatility" -> vol.score
                       [] n = "drawdownRisk" -> dd.score
                       [] n = "liquidity" -> liq.score
                       [] n = "catalyst" -> cat.score]
             reasons == trend.reasons \o rs.reasons \o vol.reasons \o dd.reasons
                        \o liq.reasons \o cat.reasons
             warnings == trend.warnings \o rs.warnings \o vol.warnings \o dd.warnings
                         \o liq.warnings \o cat.warnings
             swingScore == SumOver(components, ComponentNames)
         IN  [threw |-> FALSE,
              featuresRead |-> TRUE,
              swingScore |-> swingScore,
              components |-> components,
              topReasons |-> FirstN(reasons, 3),
              warnings |-> warnings,
              projection |-> computeProjection(features, swingScore)]

----------------------------------------------------------------------------
(* engine/signals.ts *)

ASYMMETRY_THRESHOLDS == [NONE |-> Rat(2, 1), WATCH |-> Rat(12, 10), SELL |-> Rat(8, 10)]

\* the level chain of computeSellSignal, first match wins
SellLevelMut(asymmetry) ==
    IF RLe(ASYMMETRY_THRESHOLDS.NONE, asymmetry) THEN "NONE"
    ELSE IF RLe(ASYMMETRY_THRESHOLDS.WATCH, asymmetry) THEN "WATCH"
    ELSE IF RLe(ASYMMETRY_THRESHOLDS.SELL, asymmetry) THEN "SELL"
    ELSE "STRONG_SELL"
SellLevel(asymmetry) ==
    IF RLt(ASYMMETRY_THRESHOLDS.NONE, asymmetry) THEN "NONE"
    ELSE IF RLt(ASYMMETRY_THRESHOLDS.WATCH, asymmetry) THEN "WATCH"
    ELSE IF RLt(ASYMMETRY_THRESHOLDS.SELL, asymmetry) THEN "SELL"
    ELSE "STRONG_SELL"

\* the reason pushed with the level; it cites asymmetry.toFixed(2)
LevelReason(level, asymmetry) ==
    [kind |-> "level",
     text |-> CASE level = "NONE" -> "Favorable risk/reward"
                [] level = "WATCH" -> "Risk/reward narrowing"
                [] level = "SELL" -> "Unfavorable risk/reward"
                [] level = "STRONG_SELL" -> "Poor risk/reward",
     asymmetry |-> RoundTo(asymmetry, 100)]

\* the factor a positive tail risk score puts on the downside
TailFactorMut(tailRiskScore14d) == RSub(Rat(1, 1), RMul(tailRiskScore14d, Rat(1, 10)))
TailFactor(tailRiskScore14d) == RAdd(Rat(1, 1), RMul(tailRiskScore14d, Rat(1, 10)))

\* computeSellSignal(symbol, currentPrice, asOfDate): features is the
\* symbol's latest Feature row at or before asOfDate, or NoRow
computeSellSignal(features, currentPrice) ==
    LET price == Rat(currentPrice, 1)
        atr == IF features # NoRow /\ Truthy(features.atr14)
               THEN features.atr14.v
               ELSE RMul(price, Rat(2, 100))
        upsideRemainingPct == RDiv(RMul(atr, Rat(3, 1)), price)
        base == RDiv(RMul(atr, Rat(2, 1)), price)
        hasTail == /\ features # NoRow
                   /\ Truthy(features.tailRiskScore14d)
                   /\ features.tailRiskScore14d.v[1] > 0
        afterTail == IF hasTail
                     THEN RMul(base, TailFactor(features.tailRiskScore14d.v))
                     ELSE base
        tailReasons == IF hasTail
                       THEN <<[kind |-> "tailRisk", text |-> "Elevated tail risk from news",
                               asymmetry |-> Rat(0, 1)]>>
                       ELSE <<>>
        within5 == features # NoRow /\ features.earningsWithin5d
        within10 == features # NoRow /\ features.earningsWithin10d
        downsideTailPct == IF within5 THEN RMul(afterTail, Rat(15, 10))
                           ELSE IF within10 THEN RMul(afterTail, Rat(12, 10))
                           ELSE afterTail
        earningsReasons ==
            IF within5
            THEN <<[kind |-> "earnings", text |-> "Earnings within 5 days - elevated gap risk",
                    asymmetry |-> Rat(0, 1)]>>
            ELSE IF within10
            THEN <<[kind |-> "earnings", text |-> "Earnings within 10 days",
                    asymmetry |-> Rat(0, 1)]>>
            ELSE <<>>
        asymmetry == IF downsideTailPct[1] > 0
                     THEN RDiv(upsideRemainingPct, downsideTailPct)
                     ELSE Rat(10, 1)
        sellSignalLevel == SellLevel(asymmetry)
    IN  [sellSignalLevel |-> sellSignalLevel,
         asymmetry |-> asymmetry,
         upsideRemainingPct |-> RMul(RoundTo(upsideRemainingPct, 10000), Rat(100, 1)),
         downsideTailPct |-> RMul(RoundTo(downsideTailPct, 10000), Rat(100, 1)),
         reasons |-> tailReasons \o earningsReasons
                     \o <<LevelReason(sellSignalLevel, asymmetry)>>]

DefaultRotateThreshold == 8

NoSymbol == "none"

\* the comparison that decides ROTATE
RotateDecisionMut(scoreDiff, effectiveThreshold) == RLt(effectiveThreshold, scoreDiff)
RotateDecision(scoreDiff, effectiveThreshold) == RLe(effectiveThreshold, scoreDiff)

\* the symbol a ROTATE names: the candidate the caller passed, which the
\* function does not compare with currentSymbol
RotateTargetMut(currentSymbol, bestCandidate) == currentSymbol
RotateTarget(currentSymbol, bestCandidate) == bestCandidate.symbol

\* computeRotationRecommendation(...) at clock `now`; scores are in cp and
\* rotateThreshold in points
computeRotationRecommendation(now, currentSymbol, currentPrice, entryDate, entryPrice, bestCandidate, currentScore, rotateThreshold) ==
    LET taxImpact == calculateTaxDrag(now, entryDate, entryPrice, currentPrice)
        effectiveThreshold ==
            RAdd(Rat(rotateThreshold, 1), RMul(taxImpact.requiredEdgeToRotate, Rat(100, 1)))
        scoreDiff == Rat(bestCandidate.score - currentScore, 100)
        nearLongTerm == taxImpact.daysToLongTerm > 0 /\ taxImpact.daysToLongTerm < 30
    IN  IF RotateDecision(scoreDiff, effectiveThreshold)
        THEN [recommendation |-> "ROTATE",
              rotateToSymbol |-> RotateTarget(currentSymbol, bestCandidate),
              reasons |-> <<"scores higher">>
                          \o (IF taxImpact.taxDragPct[1] > 0
                              THEN <<"Tax cost factored in">> ELSE <<>>)
                          \o (IF nearLongTerm
                              THEN <<"Note: days until long-term status">> ELSE <<>>),
              taxImpact |-> taxImpact]
        ELSE [recommendation |-> "HOLD",
              rotateToSymbol |-> NoSymbol,
              reasons |-> (IF scoreDiff[1] > 0
                           THEN <<"only points higher">>
                           ELSE <<"Current holding remains top candidate">>)
                          \o (IF nearLongTerm
                              THEN <<"Holding for long-term status">> ELSE <<>>),
              taxImpact |-> taxImpact]

----------------------------------------------------------------------------
(* Sequences *)

Range(s) == {s[i] : i \in 1..Len(s)}

\* Array.prototype.sort with a comparator: stable; less[<<i, j>>] tells whether
\* compare(s[i], s[j]) < 0
StableSort(s, less) ==
    LET n == Len(s)
        Pos(i) == Cardinality({j \in 1..n : less[<<j, i>>]})
                  + Cardinality({j \in 1..(i - 1) : ~less[<<j, i>>] /\ ~less[<<i, j>>]})
                  + 1
    IN  [p \in 1..n |-> s[CHOOSE i \in 1..n : Pos(i) = p]]

Pairs(s) == (1..Len(s)) \X (1..Len(s))

\* the sequences of distinct members of S
RECURSIVE ListsOf(_)
ListsOf(S) ==
    {<<>>} \cup UNION {{<<x>> \o l : l \in ListsOf(S \ {x})} : x \in S}

SymbolLists == ListsOf(Symbols)

----------------------------------------------------------------------------
(* engine/features.ts: the batch *)

\* prisma.feature.upsert of persistFeatures: the six technical columns are
\* written, the semantic columns of an existing row are left as they are
persistFeaturesMut(row, features) ==
    [sma20 |-> features.sma20, sma50 |-> features.sma50, sma200 |-> features.sma200,
     rsi14 |-> features.rsi14, atr14 |-> features.atr14, rsVsSpy |-> features.rsVsSpy,
     catalystMomentum |-> Null, tailRiskScore14d |-> Null,
     earningsWithin5d |-> FALSE, earningsWithin10d |-> FALSE]
persistFeatures(row, features) ==
    IF row = NoRow
    THEN [sma20 |-> features.sma20, sma50 |-> features.sma50, sma200 |-> features.sma200,
          rsi14 |-> features.rsi14, atr14 |-> features.atr14, rsVsSpy |-> features.rsVsSpy,
          catalystMomentum |-> Null, tailRiskScore14d |-> Null,
          earningsWithin5d |-> FALSE, earningsWithin10d |-> FALSE]
    ELSE [row EXCEPT !.sma20 = features.sma20, !.sma50 = features.sma50,
                     !.sma200 = features.sma200, !.rsi14 = features.rsi14,
                     !.atr14 = features.atr14, !.rsVsSpy = features.rsVsSpy]

\* Math.round((i / (n - 1)) * 100) for the 0-based rank i of n; 0 / 0 is NaN
Percentile(i, n) == IF n = 1 THEN NaN ELSE Num(Rat(MathRound(i * 100, n - 1), 1))

FeatureError(symbol, phase) == [symbol |-> symbol, phase |-> phase]

\* whether the first pass keeps the symbol's features after a failed fetch of
\* its 20-day bars: allFeatures.set runs before that fetch
KeptInFirstPass(o) == o.compute = "ok"

\* the exceptions that leave computeFeaturesForUniverse: the fetch of SPY's
\* bars is outside any try; the body of each loop is inside one
BatchThrowsMut(spy, symbols, obs) ==
    \/ spy.fetch = "throws"
    \/ \E s \in Range(symbols) :
          obs[s].compute = "throws" \/ obs[s].retFetch = "throws" \/ obs[s].persist = "throws"

BatchThrows(spy, symbols, obs) ==
    spy.fetch = "throws"

\* computeFeaturesForUniverse(symbols, asOfDate) over the Feature table rows.
\* What the database and the provider hold is given by spy (the SPY fetch and
\* SPY's 20-day return) and, per symbol, obs[s]: whether computeFeatures
\* throws, the features it returns, whether the fetch of the 20-day bars
\* throws, the 20-day return (Null below 20 bars) and whether the upsert throws.
computeFeaturesForUniverse(symbols, obs, spy, rows) ==
    LET firstErrors ==
            SelectSeq(symbols, LAMBDA s : obs[s].compute = "throws" \/ obs[s].retFetch = "throws")
        allFeatures == SelectSeq(symbols, LAMBDA s : KeptInFirstPass(obs[s]))
        stockReturns ==
            SelectSeq(symbols, LAMBDA s : /\ obs[s].compute = "ok"
                                          /\ obs[s].retFetch = "ok"
                                          /\ obs[s].ret # Null)
        rsRatio == [s \in Range(stockReturns) |->
                      IF spy.ret[1] # 0 THEN RDiv(obs[s].ret.v, spy.ret) ELSE Rat(1, 1)]
        rsRatios == StableSort(stockReturns,
                               [p \in Pairs(stockReturns) |->
                                   RLt(rsRatio[stockReturns[p[1]]], rsRatio[stockReturns[p[2]]])])
        rankOf(s) == CHOOSE i \in 1..Len(rsRatios) : rsRatios[i] = s
        featuresOf(s) ==
            IF s \in Range(rsRatios)
            THEN [obs[s].features EXCEPT !.rsVsSpy = Percentile(rankOf(s) - 1, Len(rsRatios))]
            ELSE obs[s].features
        persisted == SelectSeq(allFeatures, LAMBDA s : obs[s].persist = "ok")
        persistErrors == SelectSeq(allFeatures, LAMBDA s : obs[s].persist = "throws")
    IN  IF BatchThrows(spy, symbols, obs)
        THEN [threw |-> TRUE, rows |-> rows, symbols |-> symbols,
              computed |-> 0, errors |-> <<>>, persisted |-> <<>>, ranked |-> <<>>]
        ELSE [threw |-> FALSE,
              rows |-> [s \in DOMAIN rows |->
                          IF s \in Range(persisted)
                          THEN persistFeatures(rows[s], featuresOf(s)) ELSE rows[s]],
              symbols |-> symbols,
              computed |-> Len(persisted),
              errors |-> [i \in 1..Len(firstErrors) |-> FeatureError(firstErrors[i], "compute")]
                         \o [i \in 1..Len(persistErrors) |->
                                FeatureError(persistErrors[i], "persist")],
              persisted |-> persisted,
              ranked |-> [i \in 1..Len(rsRatios) |->
                            [symbol |-> rsRatios[i], rsRatio |-> rsRatio[rsRatios[i]]]]]

----------------------------------------------------------------------------
(* engine/scoring.ts: the batch *)

\* the Score row persistScore upserts for a result
persistScore(result) ==
    [swingScore |-> result.swingScore,
     projectionJson |-> result.projection,
     explainJson |-> [components |-> result.components, topReasons |-> result.topReasons,
                      warnings |-> result.warnings]]

\* prisma.score.upsert on (symbol, asOfDate): update and create write the
\* same three columns from the result, whatever row was there
upsertScoreMut(row, result) ==
    IF row = NoRow THEN persistScore(result)
    ELSE [persistScore(result) EXCEPT !.swingScore = row.swingScore + result.swingScore]
upsertScore(row, result) == persistScore(result)

TopN == 10

\* the loop of scoreUniverse over the outcome result[s] of scoreCandidate for
\* each symbol: a throw of scoreCandidate or of persistScore is caught and
\* recorded, the rest is pushed to scores, sorted and cut to the top ten
scoreUniverseLoop(symbols, persistFails, result, srows) ==
    LET done == SelectSeq(symbols, LAMBDA s : ~result[s].threw /\ s \notin persistFails)
        failed == SelectSeq(symbols, LAMBDA s : result[s].threw \/ s \in persistFails)
        scores == [i \in 1..Len(done) |->
                     [symbol |-> done[i], score |-> result[done[i]].swingScore]]
        sorted == StableSort(scores,
                             [p \in Pairs(scores) |-> scores[p[1]].score > scores[p[2]].score])
    IN  [rows |-> [s \in DOMAIN srows |->
                      IF s \in Range(done) THEN upsertScore(srows[s], result[s]) ELSE srows[s]],
         symbols |-> symbols,
         scored |-> Len(scores),
         errors |-> [i \in 1..Len(failed) |->
                        [symbol |-> failed[i],
                         phase |-> IF result[failed[i]].threw THEN "score" ELSE "persist"]],
         topScores |-> FirstN(sorted, TopN),
         persisted |-> done]

\* scoreUniverse(symbols, asOfDate) over the tables; persistFails are the
\* symbols whose Score upsert throws
scoreUniverse(symbols, persistFails, tks, frows, srows) ==
    scoreUniverseLoop(symbols, persistFails,
                      [s \in Range(symbols) |-> scoreCandidate(tks[s], frows[s], DEFAULT_WEIGHTS)],
                      srows)

----------------------------------------------------------------------------
(* The stores before anything has run *)

SysInit ==
    /\ tickers = [s \in Symbols |-> NoRow]
    /\ featureRows = [s \in Symbols |-> NoRow]
    /\ scoreRows = [s \in Symbols |-> NoRow]
    /\ signalRow = NoRow
    /\ portfolio = NoRow
    /\ jobs = [j \in 1..MaxRuns |-> [pc |-> "idle", universe |-> <<>>, topScores |-> <<>>]]
    /\ edits = 0
    /\ script = [pc |-> "idle", symbols |-> <<>>, runs |-> 0]
    /\ lastBatch = NoRow

----------------------------------------------------------------------------
(* calculateTaxDrag as a function of the clock, the entry and the price *)

HeldDays == {0, 200, 334, 335, 336, 364, 365, 366, 500}
HeldTicks == {-1} \cup {d * TicksPerDay + r : d \in HeldDays, r \in 0..(TicksPerDay - 1)}
EntryPrices == {3, 100, 150}
CurrentPrices == {1, 2, 3, 4, 90, 100, 105, 110, 111, 150, 180}

TaxInputs == [now : HeldTicks, entryDate : {0}, entryPrice : EntryPrices,
              currentPrice : CurrentPrices]

InitTax ==
    /\ SysInit
    /\ probe \in {[op |-> "tax", in |-> i, out |-> Pending] : i \in TaxInputs}

CalculateTaxDragCall ==
    /\ probe.op = "tax"
    /\ probe.out = Pending
    /\ probe' = [probe EXCEPT !.out = calculateTaxDrag(probe.in.now, probe.in.entryDate,
                                        probe.in.entryPrice, probe.in.currentPrice)]
    /\ UNCHANGED sysvars

NextTax == CalculateTaxDragCall

SpecTax == InitTax /\ [][NextTax]_vars

TaxDone == probe.op = "tax" /\ probe.out # Pending

\* whole days held, stated from the ticks: d days have passed and d + 1 have not
DaysHeld(i) ==
    CHOOSE d \in -1..1000 :
        d * TicksPerDay <= i.now - i.entryDate /\ i.now - i.entryDate < (d + 1) * TicksPerDay

ExactGain(i) == Rat(i.currentPrice - i.entryPrice, i.entryPrice)

\* x is e rounded to four decimal places
Rounds4(x, e) ==
    LET diff == RSub(RMul(x, Rat(10000, 1)), RMul(e, Rat(10000, 1)))
    IN  /\ RMul(x, Rat(10000, 1))[2] = 1
        /\ 2 * Abs(diff[1]) <= diff[2]

\* C8: a holding at or below its entry price has taxDragPct = 0 and
\* requiredEdgeToRotate = 0.02 exactly, whatever the holding period, the last
\* 30 days before long-term status included (no near-term bonus).
C8_LossHasNoTaxDrag ==
    (TaxDone /\ probe.in.currentPrice <= probe.in.entryPrice) =>
        /\ probe.out.taxDragPct = <<0, 1>>
        /\ probe.out.requiredEdgeToRotate = <<1, 50>>

C8_Witness ==
    /\ TaxDone
    /\ probe.in.currentPrice < probe.in.entryPrice
    /\ DaysHeld(probe.in) = 335
    /\ probe.out.requiredEdgeToRotate = <<1, 50>>

----------------------------------------------------------------------------
(* scoreCandidate as a function of the ticker row and the feature row *)

NumR(n, d) == Num(Rat(n, d))

Sma50Grid == {Null, NumR(0, 1), NumR(10, 1), NumR(20, 1)}
Sma200Grid == {Null, NumR(10, 1)}
RsiGrid == {Null} \cup {NumR(r, 1) : r \in {0, 29, 30, 35, 40, 50, 60, 65, 70, 71, 100}}
AtrGrid == {Null, NumR(0, 1), NumR(3, 1)}
RsGrid == {Null, NaN} \cup {NumR(p, 1) : p \in 0..100}
CatalystGrid == {Null, NumR(-1, 2), NumR(0, 1), NumR(1, 2)}

ScoreFeatures ==
    [sma20 : {Null}, sma50 : Sma50Grid, sma200 : Sma200Grid, rsi14 : RsiGrid, atr14 : AtrGrid,
     rsVsSpy : RsGrid, catalystMomentum : CatalystGrid,
     tailRiskScore14d : {Null}, earningsWithin5d : {FALSE}, earningsWithin10d : {FALSE}]

TickerRow(enabled, cls, manual) ==
    [enabled |-> enabled, defenseClassification |-> cls, manualOverride |-> manual]

ScoreInputs ==
    [ticker : {TickerRow(TRUE, "NON_DEFENSE", FALSE)}, features : ScoreFeatures]
    \cup [ticker : {NoRow, TickerRow(TRUE, "DEFENSE_SECONDARY", FALSE),
                    TickerRow(TRUE, "DEFENSE_PRIMARY", TRUE)},
          features : {NoRow} \cup {f \in ScoreFeatures :
                                     f.rsVsSpy \in {Null, NumR(100, 1)} /\ f.rsi14 = Null}]

InitScore ==
    /\ SysInit
    /\ probe \in {[op |-> "score", in |-> i, out |-> Pending] : i \in ScoreInputs}

ScoreCandidateCall ==
    /\ probe.op = "score"
    /\ probe.out = Pending
    /\ probe' = [probe EXCEPT !.out = scoreCandidate(probe.in.ticker, probe.in.features,
                                                      DEFAULT_WEIGHTS)]
    /\ UNCHANGED sysvars

NextScore == ScoreCandidateCall

SpecScore == InitScore /\ [][NextScore]_vars

\* a feature record was found and scored
ScoreDone ==
    /\ probe.op = "score"
    /\ probe.out # Pending
    /\ ~probe.out.threw
    /\ probe.in.features # NoRow

\* the fixed maximum of each component, in cp
ComponentMax ==
    [n \in ComponentNames |->
        CASE n = "trend" -> 3000
          [] n = "relativeStrength" -> 2000
          [] n = "volatility" -> 1500
          [] n = "drawdownRisk" -> 1500
          [] n = "liquidity" -> 1000
          [] n = "catalyst" -> 1000]

\* C10: for every feature record scored with the default weights, swingScore
\* is in [0, 100], is the sum of the six returned components, and each
\* component is between 0 and its fixed maximum (30, 20, 15, 15, 10, 10).
C10_ScoreWithinCaps ==
    ScoreDone =>
        LET c == probe.out.components
        IN  /\ DOMAIN c = ComponentNames
            /\ \A n \in ComponentNames : 0 <= c[n] /\ c[n] <= ComponentMax[n]
            /\ probe.out.swingScore = c["trend"] + c["relativeStrength"] + c["volatility"]
                                       + c["drawdownRisk"] + c["liquidity"] + c["catalyst"]
            /\ 0 <= probe.out.swingScore /\ probe.out.swingScore <= 10000

\* every input present and at its best: 24 + 20 + 11 + 14 + 8 + 8 = 85 points
C10_Witness ==
    /\ ScoreDone
    /\ probe.in.features.rsVsSpy = NumR(100, 1)
    /\ probe.out.components["relativeStrength"] = 2000
    /\ probe.out.swingScore = 8500

----------------------------------------------------------------------------
(* computeSellSignal as a function of the feature row and the price *)

SellFeatures ==
    [sma20 : {Null}, sma50 : {Null}, sma200 : {Null}, rsi14 : {Null}, rsVsSpy : {Null},
     catalystMomentum : {Null},
     atr14 : {Null, NumR(0, 1), NumR(1, 1), NumR(3, 1), NumR(7, 2)},
     tailRiskScore14d : {Null} \cup {NumR(t, 10) : t \in {0, 5, 10, 25, 50, 75, 100}},
     earningsWithin5d : BOOLEAN, earningsWithin10d : BOOLEAN]

SellPrices == {1, 50, 100, 250}

SellInputs == [features : {NoRow} \cup SellFeatures, currentPrice : SellPrices]

\* asymmetry values on both sides of and on every cutoff, in hundredths; the
\* values above 1.5 are ones the chain accepts though no feature row yields them
AsymmetryGrid == {Rat(a, 100) : a \in {0, 50, 79, 80, 81, 100, 119, 120, 121, 150,
                                       199, 200, 201, 250, 1000}}

InitSell ==
    /\ SysInit
    /\ probe \in {[op |-> "sell", in |-> i, out |-> Pending] : i \in SellInputs}
                \cup {[op |-> "level", in |-> a, out |-> Pending] : a \in AsymmetryGrid}

ComputeSellSignalCall ==
    /\ probe.op = "sell"
    /\ probe.out = Pending
    /\ probe' = [probe EXCEPT !.out = computeSellSignal(probe.in.features,
                                                         probe.in.currentPrice)]
    /\ UNCHANGED sysvars

\* the level chain applied to an asymmetry
SellLevelCall ==
    /\ probe.op = "level"
    /\ probe.out = Pending
    /\ probe' = [probe EXCEPT !.out = [sellSignalLevel |-> SellLevel(probe.in),
                                       reasons |-> <<LevelReason(SellLevel(probe.in),
                                                                 probe.in)>>]]
    /\ UNCHANGED sysvars

NextSell == ComputeSellSignalCall \/ SellLevelCall

SpecSell == InitSell /\ [][NextSell]_vars

SellDone == probe.op = "sell" /\ probe.out # Pending
LevelDone == probe.op = "level" /\ probe.out # Pending

\* the level the specification assigns to an asymmetry
LevelOf(a) ==
    CASE a[1] * 10 > 20 * a[2] -> "NONE"
      [] a[1] * 10 <= 20 * a[2] /\ a[1] * 10 > 12 * a[2] -> "WATCH"
      [] a[1] * 10 <= 12 * a[2] /\ a[1] * 10 > 8 * a[2] -> "SELL"
      [] a[1] * 10 <= 8 * a[2] -> "STRONG_SELL"

LevelReasons(rs) == {i \in 1..Len(rs) : rs[i].kind = "level"}

\* the reasons hold exactly one level reason, and it cites a to two decimals
CitesOnce(rs, a) ==
    /\ Cardinality(LevelReasons(rs)) = 1
    /\ \A i \in LevelReasons(rs) :
           LET cited == RMul(rs[i].asymmetry, Rat(100, 1))
               diff == RSub(cited, RMul(a, Rat(100, 1)))
           IN  cited[2] = 1 /\ 2 * Abs(diff[1]) <= diff[2]

\* C7: the sell-signal level is a total function of asymmetry: > 2.0 NONE,
\* else > 1.2 WATCH, else > 0.8 SELL, else STRONG_SELL (2.0 is WATCH, 1.2 is
\* SELL, 0.8 is STRONG_SELL), and exactly one level reason citing the
\* asymmetry is attached.
C7_LevelMapping ==
    /\ SellDone =>
        /\ probe.out.sellSignalLevel = LevelOf(probe.out.asymmetry)
        /\ CitesOnce(probe.out.reasons, probe.out.asymmetry)
    /\ LevelDone =>
        /\ probe.out.sellSignalLevel = LevelOf(probe.in)
        /\ CitesOnce(probe.out.reasons, probe.in)
        /\ probe.in = <<2, 1>> => probe.out.sellSignalLevel = "WATCH"
        /\ probe.in = <<5, 2>> => probe.out.sellSignalLevel = "NONE"
        /\ probe.in = <<1, 1>> => probe.out.sellSignalLevel = "SELL"
        /\ probe.in = <<1, 2>> => probe.out.sellSignalLevel = "STRONG_SELL"

\* tail risk 2.5 and no earnings: asymmetry is exactly 1.2, which is SELL
C7_Witness ==
    /\ SellDone
    /\ probe.out.asymmetry = <<6, 5>>
    /\ probe.out.sellSignalLevel = "SELL"
    /\ probe.in.features # NoRow
    /\ probe.in.features.atr14 = NumR(3, 1)

----------------------------------------------------------------------------
(* computeRotationRecommendation as a function of its arguments *)

RotateHeld == {200 * TicksPerDay, 350 * TicksPerDay, 400 * TicksPerDay}
RotatePrices == {<<100, 90>>, <<100, 100>>, <<100, 110>>, <<100, 150>>, <<150, 180>>}
HalfPoints == 200
BestScores == {50 * k : k \in 0..HalfPoints}
CurrentScores == {0, 5000, 6800}

RotateInputs ==
    [now : RotateHeld, prices : RotatePrices, currentSymbol : {"AAA"},
     bestCandidate : [symbol : {"AAA", "BBB"}, score : BestScores],
     currentScore : CurrentScores, rotateThreshold : {DefaultRotateThreshold, 5}]

InitRotate ==
    /\ SysInit
    /\ probe \in {[op |-> "rotate", in |-> i, out |-> Pending] : i \in RotateInputs}

ComputeRotationRecommendationCall ==
    /\ probe.op = "rotate"
    /\ probe.out = Pending
    /\ probe' = [probe EXCEPT !.out =
            computeRotationRecommendation(probe.in.now, probe.in.currentSymbol,
                probe.in.prices[2], 0, probe.in.prices[1], probe.in.bestCandidate,
                probe.in.currentScore, probe.in.rotateThreshold)]
    /\ UNCHANGED sysvars

NextRotate == ComputeRotationRecommendationCall

SpecRotate == InitRotate /\ [][NextRotate]_vars

RotateDone == probe.op = "rotate" /\ probe.out # Pending

\* 100 * (scoreDiff - effectiveThreshold) in points, from the arguments and
\* the returned tax impact: cp of score difference less 100 * threshold
\* points less requiredEdgeToRotate in units of 1/10000
EdgeOverThreshold ==
    LET req == RMul(probe.out.taxImpact.requiredEdgeToRotate, Rat(10000, 1))
    IN  RSub(Rat(probe.in.bestCandidate.score - probe.in.currentScore, 1),
             RAdd(Rat(100 * probe.in.rotateThreshold, 1), req))

\* C6: the recommendation is ROTATE iff scoreDiff >= effectiveThreshold, with
\* scoreDiff = bestCandidate.score - currentScore and effectiveThreshold =
\* rotateThreshold (default 8) + taxImpact.requiredEdgeToRotate * 100;
\* equality is ROTATE and a positive scoreDiff below the threshold is HOLD.
C6_RotateIffAtThreshold ==
    RotateDone =>
        /\ probe.out.recommendation \in {"HOLD", "ROTATE"}
        /\ (probe.out.recommendation = "ROTATE") <=> (EdgeOverThreshold[1] >= 0)

\* best 78 against 68 at a loss: threshold 8 + 0.02 * 100 = 10 = scoreDiff
C6_Witness ==
    /\ RotateDone
    /\ probe.in.bestCandidate.score = 7800 /\ probe.in.currentScore = 6800
    /\ probe.in.rotateThreshold = 8
    /\ probe.out.taxImpact.requiredEdgeToRotate = <<1, 50>>
    /\ EdgeOverThreshold[1] = 0
    /\ probe.out.recommendation = "ROTATE"

----------------------------------------------------------------------------
(* The feature and score batches, as the seed and backfill scripts and the  *)
(* daily job call them, over a ticker table fixed at the start              *)

NullTech ==
    [sma20 |-> Null, sma50 |-> Null, sma200 |-> Null, rsi14 |-> Null, atr14 |-> Null,
     rsVsSpy |-> Null]

\* a symbol with full history; rsVsSpy is what computeFeatures sets from the
\* symbol alone, before the ranking pass
FullTech ==
    [sma20 |-> NumR(15, 1), sma50 |-> NumR(20, 1), sma200 |-> NumR(10, 1),
     rsi14 |-> NumR(50, 1), atr14 |-> NumR(3, 1), rsVsSpy |-> NumR(50, 1)]

Returns == {Rat(-1, 10), Rat(1, 10)}

Obs(compute, features, retFetch, ret, persist) ==
    [compute |-> compute, features |-> features, retFetch |-> retFetch, ret |-> ret,
     persist |-> persist]

ObsChoices ==
    {Obs("throws", NullTech, "ok", Null, "ok"), Obs("ok", NullTech, "ok", Null, "ok")}
    \cup {Obs("ok", FullTech, "ok", Num(r), p) : r \in Returns, p \in {"ok", "throws"}}
    \cup {Obs("ok", FullTech, "throws", Null, p) : p \in {"ok", "throws"}}

SpyChoices ==
    {[fetch |-> "throws", ret |-> Rat(0, 1)]}
    \cup {[fetch |-> "ok", ret |-> r] : r \in {Rat(-1, 20), Rat(1, 20)}}

BatchTickers ==
    {NoRow, TickerRow(TRUE, "NON_DEFENSE", FALSE), TickerRow(TRUE, "DEFENSE_PRIMARY", TRUE)}

\* the first symbol is an ordinary ticker, the others are any of BatchTickers
InitBatch ==
    /\ tickers \in {t \in [Symbols -> BatchTickers] :
                       t[SymbolNames[1]] = TickerRow(TRUE, "NON_DEFENSE", FALSE)}
    /\ featureRows = [s \in Symbols |-> NoRow]
    /\ scoreRows = [s \in Symbols |-> NoRow]
    /\ signalRow = NoRow
    /\ portfolio = NoRow
    /\ jobs = [j \in 1..MaxRuns |-> [pc |-> "idle", universe |-> <<>>, topScores |-> <<>>]]
    /\ edits = 0
    /\ script = [pc |-> "idle", symbols |-> <<>>, runs |-> 0]
    /\ lastBatch = NoRow
    /\ probe = NoRow

\* a script (seed.ts, complete-backfill.ts) computes the features of its
\* symbol list; a throw of the batch ends the script
ComputeFeaturesForUniverse ==
    /\ script.pc = "idle"
    /\ script.runs < MaxScriptRuns
    /\ \E symbols \in SymbolLists, spy \in SpyChoices :
        \E obs \in [Range(symbols) -> ObsChoices] :
            \E r \in {computeFeaturesForUniverse(symbols, obs, spy, featureRows)} :
                /\ featureRows' = r.rows
                /\ lastBatch' = [batch |-> "features", symbols |-> symbols,
                                 benchmark |-> spy.fetch, threw |-> r.threw, count |-> r.computed,
                                 errors |-> r.errors, persisted |-> r.persisted,
                                 topScores |-> <<>>, ranked |-> r.ranked]
                /\ script' = [pc |-> IF r.threw THEN "idle" ELSE "score",
                              symbols |-> IF r.threw THEN <<>> ELSE symbols,
                              runs |-> script.runs + 1]
    /\ UNCHANGED <<tickers, scoreRows, signalRow, portfolio, jobs, edits, probe>>

\* and then scores the same list
ScoreUniverse ==
    /\ script.pc = "score"
    /\ \E persistFails \in SUBSET Range(script.symbols) :
        \E r \in {scoreUniverse(script.symbols, persistFails, tickers, featureRows, scoreRows)} :
            /\ scoreRows' = r.rows
            /\ lastBatch' = [batch |-> "scores", symbols |-> script.symbols,
                             benchmark |-> "ok", threw |-> FALSE, count |-> r.scored,
                             errors |-> r.errors, persisted |-> r.persisted,
                             topScores |-> r.topScores, ranked |-> <<>>]
            /\ script' = [script EXCEPT !.pc = "idle", !.symbols = <<>>]
    /\ UNCHANGED <<tickers, featureRows, signalRow, portfolio, jobs, edits, probe>>

NextBatch == ComputeFeaturesForUniverse \/ ScoreUniverse

SpecBatch == InitBatch /\ [][NextBatch]_vars

----------------------------------------------------------------------------
(* What a batch reports *)

MarkedDefensePrimary(s) ==
    tickers[s] # NoRow /\ tickers[s].defenseClassification = "DEFENSE_PRIMARY"

ErrorSymbols(b) == {b.errors[i].symbol : i \in 1..Len(b.errors)}

HasError(b, s, phase) == \E i \in 1..Len(b.errors) : b.errors[i] = FeatureError(s, phase)

ScoresBatchDone == lastBatch # NoRow /\ lastBatch.batch = "scores"

FeaturesBatchDone == lastBatch # NoRow /\ lastBatch.batch = "features"

\* C2: for a symbol marked DEFENSE_PRIMARY scoreCandidate throws without
\* having read the features and yields no score, whatever Feature row the
\* symbol has; in scoreUniverse the symbol gets an error naming it and no
\* Score row, and every other symbol of the list is scored (it is persisted,
\* or the failure recorded for it is that of its own upsert)
C2_DefensePrimaryAbortsOnlyItself ==
    /\ \A s \in Symbols :
          MarkedDefensePrimary(s) =>
              /\ scoreCandidate(tickers[s], featureRows[s], DEFAULT_WEIGHTS)
                    = [threw |-> TRUE, featuresRead |-> FALSE,
                       error |-> "Cannot score DEFENSE_PRIMARY ticker"]
              /\ scoreRows[s] = NoRow
    /\ ScoresBatchDone =>
          \A s \in Range(lastBatch.symbols) :
              IF MarkedDefensePrimary(s)
              THEN /\ s \notin Range(lastBatch.persisted)
                   /\ HasError(lastBatch, s, "score")
                   /\ \A i \in 1..Len(lastBatch.topScores) : lastBatch.topScores[i].symbol # s
              ELSE /\ ~HasError(lastBatch, s, "score")
                   /\ s \in Range(lastBatch.persisted) \/ HasError(lastBatch, s, "persist")

\* a list whose second symbol is DEFENSE_PRIMARY and has a Feature row: the
\* first symbol is scored and stored, the second has the only error
C2_Witness ==
    /\ ScoresBatchDone
    /\ lastBatch.symbols = <<SymbolNames[2], SymbolNames[1]>>
    /\ MarkedDefensePrimary(SymbolNames[2])
    /\ featureRows[SymbolNames[2]] # NoRow
    /\ lastBatch.errors = <<FeatureError(SymbolNames[2], "score")>>
    /\ lastBatch.persisted = <<SymbolNames[1]>>
    /\ scoreRows[SymbolNames[1]] # NoRow
    /\ scoreRows[SymbolNames[2]] = NoRow

\* C4: when the failures of a batch are those of its symbols (the fetch of the
\* benchmark's bars succeeded), the batch returns its result, and every symbol
\* of the list was processed: it is persisted or has an error of its own
C4_SymbolFailureDoesNotAbort ==
    (lastBatch # NoRow /\ lastBatch.benchmark = "ok") =>
        /\ ~lastBatch.threw
        /\ \A s \in Range(lastBatch.symbols) :
              s \in Range(lastBatch.persisted) \/ s \in ErrorSymbols(lastBatch)

\* the first symbol of the list failed and the second was still persisted
C4_Witness ==
    /\ FeaturesBatchDone
    /\ ~lastBatch.threw
    /\ Len(lastBatch.symbols) = 2
    /\ lastBatch.errors = <<FeatureError(lastBatch.symbols[1], "compute")>>
    /\ lastBatch.persisted = <<lastBatch.symbols[2]>>
    /\ featureRows[lastBatch.symbols[2]] # NoRow

\* C5: in the result of a batch each input symbol is either among the
\* succeeded, with its output persisted, or named by an error, never both and
\* never neither, and the succeeded count plus the number of errors is the
\* number of input symbols
C5_EachSymbolAccountedOnce ==
    (lastBatch # NoRow /\ ~lastBatch.threw) =>
        /\ lastBatch.count = Len(lastBatch.persisted)
        /\ lastBatch.count + Len(lastBatch.errors) = Len(lastBatch.symbols)
        /\ \A s \in Range(lastBatch.symbols) :
              (s \in Range(lastBatch.persisted)) # (s \in ErrorSymbols(lastBatch))

----------------------------------------------------------------------------
(* engine/universe.ts and the settings routes: the Ticker table *)

\* the columns of a created Ticker row that the create clause leaves out
SchemaDefaults == [defenseClassification |-> "NON_DEFENSE", manualOverride |-> FALSE]

Classifications == {"NON_DEFENSE", "DEFENSE_SECONDARY", "DEFENSE_PRIMARY"}

\* findMany returns the matching rows in primary-key order
getTradableUniverseMut(tks) ==
    SelectSeq([i \in 1..NumSymbols |-> SymbolNames[i]],
              LAMBDA s : tks[s] # NoRow /\ tks[s].enabled)
getTradableUniverse(tks) ==
    SelectSeq([i \in 1..NumSymbols |-> SymbolNames[i]],
              LAMBDA s : /\ tks[s] # NoRow
                         /\ tks[s].enabled
                         /\ tks[s].defenseClassification # "DEFENSE_PRIMARY")

addTickerToUniverse(tks, symbol, classification) ==
    [tks EXCEPT ![symbol] =
        IF @ = NoRow
        THEN TickerRow(TRUE, classification, SchemaDefaults.manualOverride)
        ELSE [@ EXCEPT !.enabled = TRUE]]

excludeDefenseTicker(tks, symbol) ==
    [tks EXCEPT ![symbol] =
        IF @ = NoRow
        THEN TickerRow(TRUE, "DEFENSE_PRIMARY", TRUE)
        ELSE [@ EXCEPT !.defenseClassification = "DEFENSE_PRIMARY", !.manualOverride = TRUE]]

\* each symbol of the list is looked up and upserted on its own, so the loop
\* is the same change applied to every listed symbol
seedInitialUniverse(tks, symbols, classification) ==
    [s \in DOMAIN tks |->
        IF s \notin Range(symbols) THEN tks[s]
        ELSE IF tks[s] = NoRow
        THEN TickerRow(TRUE, classification, SchemaDefaults.manualOverride)
        ELSE IF tks[s].defenseClassification = "DEFENSE_PRIMARY" THEN tks[s]
        ELSE [tks[s] EXCEPT !.enabled = TRUE]]

\* the upsert of the universe routes: enable, or create with the defaults
EnableOrCreate(row) ==
    IF row = NoRow
    THEN TickerRow(TRUE, SchemaDefaults.defenseClassification, SchemaDefaults.manualOverride)
    ELSE [row EXCEPT !.enabled = TRUE]

\* POST /api/settings/universe: updateMany disables every row, then each
\* listed symbol is enabled or created
replaceUniverse(tks, symbols) ==
    [s \in DOMAIN tks |->
        IF s \in Range(symbols) THEN EnableOrCreate(tks[s])
        ELSE IF tks[s] = NoRow THEN NoRow
        ELSE [tks[s] EXCEPT !.enabled = FALSE]]

AddTickerToUniverse ==
    /\ edits < MaxEdits
    /\ \E s \in Symbols, c \in {"NON_DEFENSE", "DEFENSE_SECONDARY"} :
          tickers' = addTickerToUniverse(tickers, s, c)
    /\ edits' = edits + 1
    /\ UNCHANGED <<featureRows, scoreRows, signalRow, portfolio, jobs, script, lastBatch, probe>>

ExcludeDefenseTicker ==
    /\ edits < MaxEdits
    /\ \E s \in Symbols : tickers' = excludeDefenseTicker(tickers, s)
    /\ edits' = edits + 1
    /\ UNCHANGED <<featureRows, scoreRows, signalRow, portfolio, jobs, script, lastBatch, probe>>

SeedInitialUniverse ==
    /\ edits < MaxEdits
    /\ \E symbols \in SymbolLists \ {<<>>}, c \in {"NON_DEFENSE", "DEFENSE_SECONDARY"} :
          tickers' = seedInitialUniverse(tickers, symbols, c)
    /\ edits' = edits + 1
    /\ UNCHANGED <<featureRows, scoreRows, signalRow, portfolio, jobs, script, lastBatch, probe>>

UniversePost ==
    /\ edits < MaxEdits
    /\ \E symbols \in SymbolLists : tickers' = replaceUniverse(tickers, symbols)
    /\ edits' = edits + 1
    /\ UNCHANGED <<featureRows, scoreRows, signalRow, portfolio, jobs, script, lastBatch, probe>>

\* PUT /api/settings/universe
UniversePut ==
    /\ edits < MaxEdits
    /\ \E s \in Symbols : tickers' = [tickers EXCEPT ![s] = EnableOrCreate(@)]
    /\ edits' = edits + 1
    /\ UNCHANGED <<featureRows, scoreRows, signalRow, portfolio, jobs, script, lastBatch, probe>>

\* DELETE /api/settings/universe: the update of a missing row throws and the
\* route answers 500 with nothing changed
UniverseDelete ==
    /\ edits < MaxEdits
    /\ \E s \in Symbols :
          /\ tickers[s] # NoRow
          /\ tickers' = [tickers EXCEPT ![s].enabled = FALSE]
    /\ edits' = edits + 1
    /\ UNCHANGED <<featureRows, scoreRows, signalRow, portfolio, jobs, script, lastBatch, probe>>

\* POST of the defense classification route, likewise an update
DefensePost ==
    /\ edits < MaxEdits
    /\ \E s \in Symbols, c \in Classifications :
          /\ tickers[s] # NoRow
          /\ tickers' = [tickers EXCEPT ![s].defenseClassification = c,
                                         ![s].manualOverride = TRUE]
    /\ edits' = edits + 1
    /\ UNCHANGED <<featureRows, scoreRows, signalRow, portfolio, jobs, script, lastBatch, probe>>

\* upsertBars of a backfill or an ingestion: the Ticker row is created when
\* missing (the symbols here are not SPY) and an existing row is left as it is
UpsertBars ==
    /\ edits < MaxEdits
    /\ \E s \in Symbols :
          tickers' = [tickers EXCEPT ![s] =
                         IF @ = NoRow
                         THEN TickerRow(TRUE, SchemaDefaults.defenseClassification,
                                        SchemaDefaults.manualOverride)
                         ELSE @]
    /\ edits' = edits + 1
    /\ UNCHANGED <<featureRows, scoreRows, signalRow, portfolio, jobs, script, lastBatch, probe>>

----------------------------------------------------------------------------
(* The portfolio route: the PortfolioState singleton *)

Holding(symbol, entryDate, entryPrice) ==
    [currentSymbol |-> symbol, entryDate |-> Num(entryDate), entryPrice |-> Num(entryPrice)]

ClearedHolding == [currentSymbol |-> NoSymbol, entryDate |-> Null, entryPrice |-> Null]

EntryDates == {0}
HoldingPrices == {100}

\* POST /api/portfolio: the upsert of row 1
PortfolioPost ==
    /\ edits < MaxEdits
    /\ \E s \in Symbols, d \in EntryDates, p \in HoldingPrices :
          portfolio' = Holding(s, d, p)
    /\ edits' = edits + 1
    /\ UNCHANGED <<tickers, featureRows, scoreRows, signalRow, jobs, script, lastBatch, probe>>

\* DELETE /api/portfolio: an update, which throws when row 1 is missing
PortfolioDelete ==
    /\ edits < MaxEdits
    /\ portfolio # NoRow
    /\ portfolio' = ClearedHolding
    /\ edits' = edits + 1
    /\ UNCHANGED <<tickers, featureRows, scoreRows, signalRow, jobs, script, lastBatch, probe>>

----------------------------------------------------------------------------
(* cron/daily.ts: runDailyJob, one step per stage between its awaits *)

\* prisma.signal.upsert of persistSignal on the row of the evaluation date;
\* an update leaves rotateToSymbol as it is when the rotation names no symbol
persistSignal(row, currentSymbol, sellSignal, rotation) ==
    [currentSymbol |-> currentSymbol,
     sellSignalLevel |-> sellSignal.sellSignalLevel,
     rotateRecommendation |-> rotation.recommendation,
     rotateToSymbol |-> IF rotation.rotateToSymbol # NoSymbol THEN rotation.rotateToSymbol
                        ELSE IF row = NoRow THEN NoSymbol
                        ELSE row.rotateToSymbol,
     explainJson |-> [asymmetry |-> sellSignal.asymmetry,
                      reasons |-> Len(sellSignal.reasons) + Len(rotation.reasons)],
     taxImpactJson |-> rotation.taxImpact]

\* the rotation generateSignalIfHolding uses when topScores holds no symbol
\* other than the holding
NoAlternative ==
    [recommendation |-> "HOLD", rotateToSymbol |-> NoSymbol,
     reasons |-> <<"No alternative candidates">>,
     taxImpact |-> [holdingDays |-> 0, isLongTerm |-> FALSE, estimatedGainPct |-> Rat(0, 1),
                    estimatedTaxRate |-> Rat(0, 1), taxDragPct |-> Rat(0, 1),
                    daysToLongTerm |-> 0, requiredEdgeToRotate |-> Rat(0, 1)]]

HasHolding(p) ==
    /\ p # NoRow
    /\ p.currentSymbol # NoSymbol
    /\ p.entryDate # Null
    /\ p.entryPrice # Null
    /\ p.entryPrice.v # 0

\* the test of topScores.find for the best candidate
IsAlternativeMut(t, currentSymbol) == t.symbol # NoSymbol
IsAlternative(t, currentSymbol) == t.symbol # currentSymbol

\* the rotation of generateSignalIfHolding for the candidates of topScores
\* other than the holding
rotationFor(now, p, currentPrice, own, others) ==
    IF others = <<>> THEN NoAlternative
    ELSE computeRotationRecommendation(
             now, p.currentSymbol, currentPrice, p.entryDate.v, p.entryPrice.v,
             others[1], IF own = <<>> THEN 0 ELSE own[1].score, DefaultRotateThreshold)

\* generateSignalIfHolding past the check of the holding: quote is the price
\* fetchQuotes gave, or Null when it gave none or threw
generateSignal(now, p, currentPrice, topScores, frows, row) ==
    persistSignal(row, p.currentSymbol,
                  computeSellSignal(frows[p.currentSymbol], currentPrice),
                  rotationFor(now, p, currentPrice,
                              SelectSeq(topScores, LAMBDA t : t.symbol = p.currentSymbol),
                              SelectSeq(topScores, LAMBDA t : IsAlternative(t, p.currentSymbol))))

Running(j) == jobs[j].pc \in {"load", "features", "score", "signal"}

Finished(status) == [pc |-> status, universe |-> <<>>, topScores |-> <<>>]

\* POST /trigger or the cron tick: runDailyJob starts and creates its JobRun
\* row with status RUNNING
StartDailyJob(j) ==
    /\ jobs[j].pc = "idle"
    /\ jobs' = [jobs EXCEPT ![j].pc = "load"]
    /\ UNCHANGED <<tickers, featureRows, scoreRows, signalRow, portfolio, edits,
                   script, lastBatch, probe>>

\* steps 1 and 2: a closed market or an empty universe completes the job as
\* skipped
LoadUniverse(j) ==
    /\ jobs[j].pc = "load"
    /\ \E isMarketOpen \in BOOLEAN, universe \in {getTradableUniverse(tickers)} :
          jobs' = [jobs EXCEPT ![j] =
                      IF isMarketOpen /\ universe # <<>>
                      THEN [pc |-> "features", universe |-> universe, topScores |-> <<>>]
                      ELSE Finished("SUCCESS")]
    /\ UNCHANGED <<tickers, featureRows, scoreRows, signalRow, portfolio, edits,
                   script, lastBatch, probe>>

JobObs ==
    {Obs("throws", NullTech, "ok", Null, "ok"),
     Obs("ok", FullTech, "ok", Num(Rat(1, 10)), "ok")}

\* steps 3 to 5: the bars of the universe's symbols are ingested (their
\* Ticker rows exist, so the upsert of upsertBars changes none) and the
\* features computed; a throw of the batch fails the job
ComputeJobFeatures(j) ==
    /\ jobs[j].pc = "features"
    /\ \E spy \in SpyChoices, obs \in [Range(jobs[j].universe) -> JobObs] :
          \E r \in {computeFeaturesForUniverse(jobs[j].universe, obs, spy, featureRows)} :
              /\ featureRows' = r.rows
              /\ jobs' = [jobs EXCEPT ![j] = IF r.threw THEN Finished("FAILED")
                                             ELSE [@ EXCEPT !.pc = "score"]]
    /\ UNCHANGED <<tickers, scoreRows, signalRow, portfolio, edits, script, lastBatch, probe>>

\* step 6
ScoreJobUniverse(j) ==
    /\ jobs[j].pc = "score"
    /\ \E r \in {scoreUniverse(jobs[j].universe, {}, tickers, featureRows, scoreRows)} :
          /\ scoreRows' = r.rows
          /\ jobs' = [jobs EXCEPT ![j].pc = "signal", ![j].topScores = r.topScores]
    /\ UNCHANGED <<tickers, featureRows, signalRow, portfolio, edits, script, lastBatch, probe>>

JobClocks == {10 * TicksPerDay}
Quotes == {Null, Num(110)}

\* step 7 and completeJob
GenerateSignalIfHolding(j) ==
    /\ jobs[j].pc = "signal"
    /\ jobs' = [jobs EXCEPT ![j] = Finished("SUCCESS")]
    /\ IF HasHolding(portfolio)
       THEN \E now \in JobClocks, quote \in Quotes :
                signalRow' = generateSignal(
                                 now, portfolio,
                                 IF quote = Null THEN portfolio.entryPrice.v ELSE quote.v,
                                 jobs[j].topScores, featureRows, signalRow)
       ELSE signalRow' = signalRow
    /\ UNCHANGED <<tickers, featureRows, scoreRows, portfolio, edits, script, lastBatch, probe>>

Init ==
    /\ SysInit
    /\ probe = NoRow

Next ==
    \/ AddTickerToUniverse \/ ExcludeDefenseTicker \/ SeedInitialUniverse
    \/ UniversePost \/ UniversePut \/ UniverseDelete \/ DefensePost \/ UpsertBars
    \/ PortfolioPost \/ PortfolioDelete
    \/ \E j \in 1..MaxRuns :
          \/ StartDailyJob(j) \/ LoadUniverse(j) \/ ComputeJobFeatures(j)
          \/ ScoreJobUniverse(j) \/ GenerateSignalIfHolding(j)

Spec == Init /\ [][Next]_vars

----------------------------------------------------------------------------
(* What the tables hold across edits and runs *)

\* C1: no ticker whose classification is DEFENSE_PRIMARY is returned by
\* getTradableUniverse, has a stored Score row, or is the rotateToSymbol of
\* the stored rotation recommendation
C1_DefensePrimaryNeverScoredOrTarget ==
    \A s \in Symbols :
        MarkedDefensePrimary(s) =>
            /\ s \notin Range(getTradableUniverse(tickers))
            /\ scoreRows[s] = NoRow
            /\ signalRow # NoRow => signalRow.rotateToSymbol # s

\* C3: at no time are two invocations of runDailyJob between their start and
\* their completion
C3_NoOverlappingRuns ==
    \A i, j \in 1..MaxRuns : (Running(i) /\ Running(j)) => i = j

----------------------------------------------------------------------------
(* engine/features.ts: computeFeatures and its indicators over the bars *)

RS_LOOKBACK_DAYS == 20
MaxBars == 200
SmaShort == 20
SmaMid == 50
SmaLong == 200
IndicatorPeriod == 14

\* Array.prototype.slice(-n): the last n elements, or all of a shorter array
LastN(s, n) == IF Len(s) <= n THEN s ELSE SubSeq(s, Len(s) - n + 1, Len(s))

\* the sum of s[lo..hi], by halves
RECURSIVE SumRange(_, _, _)
SumRange(s, lo, hi) ==
    IF lo > hi THEN 0
    ELSE IF lo = hi THEN s[lo]
    ELSE SumRange(s, lo, (lo + hi) \div 2) + SumRange(s, (lo + hi) \div 2 + 1, hi)

\* reduce((a, b) => a + b, 0)
Sum(s) == SumRange(s, 1, Len(s))

\* the comparisons of bars.length with a number of bars needed
EnoughBarsMut(n, needed) == n >= needed - 1

EnoughBars(n, needed) == n >= needed

computeSMA(bars, period) ==
    IF ~EnoughBars(Len(bars), period) THEN Null
    ELSE LET recentBars == LastN(bars, period)
         IN  Num(Rat(Sum([i \in 1..Len(recentBars) |-> recentBars[i].close]), period))

computeRSIFrom(recentChanges, period) ==
    LET gains == Sum([i \in 1..Len(recentChanges) |->
                        IF recentChanges[i] > 0 THEN recentChanges[i] ELSE 0])
        losses == Sum([i \in 1..Len(recentChanges) |->
                         IF recentChanges[i] > 0 THEN 0 ELSE -recentChanges[i]])
        avgGain == Rat(gains, period)
        avgLoss == Rat(losses, period)
    IN  IF avgLoss[1] = 0 THEN Num(Rat(100, 1))
        ELSE Num(RSub(Rat(100, 1),
                      RDiv(Rat(100, 1), RAdd(Rat(1, 1), RDiv(avgGain, avgLoss)))))

computeRSI(bars, period) ==
    IF ~EnoughBars(Len(bars), period + 1) THEN Null
    ELSE computeRSIFrom(LastN([i \in 1..(Len(bars) - 1) |-> bars[i + 1].close - bars[i].close],
                              period),
                        period)

TrueRange(current, prev) ==
    Max(current.high - current.low,
        Max(Abs(current.high - prev.close), Abs(current.low - prev.close)))

computeATR(bars, period) ==
    IF ~EnoughBars(Len(bars), period + 1) THEN Null
    ELSE Num(Rat(Sum(LastN([i \in 1..(Len(bars) - 1) |-> TrueRange(bars[i + 1], bars[i])],
                           period)),
                 period))

RMin(a, b) == IF RLe(a, b) THEN a ELSE b
RMax(a, b) == IF RLe(a, b) THEN b ELSE a

\* the return of a slice from its first close to its last
ReturnOver(recent) == Rat(recent[Len(recent)].close - recent[1].close, recent[1].close)

relativeStrengthOf(stockReturn, spyReturn) ==
    LET rsRatio == IF spyReturn[1] # 0 THEN RDiv(stockReturn, spyReturn) ELSE Rat(1, 1)
        percentile == RMin(Rat(100, 1),
                           RMax(Rat(0, 1),
                                RAdd(Rat(50, 1), RMul(RSub(rsRatio, Rat(1, 1)), Rat(50, 1)))))
    IN  RoundTo(percentile, 100)

computeRelativeStrength(stockBars, spyBars, lookback) ==
    IF Len(stockBars) < lookback \/ Len(spyBars) < lookback THEN Rat(50, 1)
    ELSE relativeStrengthOf(ReturnOver(LastN(stockBars, lookback)),
                            ReturnOver(LastN(spyBars, lookback)))

\* computeFeatures past the findMany: bars are the symbol's latest MaxBars bars
\* at or before asOfDate in chronological order, spyBars the benchmark's or
\* NoRow when the argument is left out
computeFeaturesOf(bars, spyBars) ==
    IF ~EnoughBars(Len(bars), SmaShort)
    THEN [sma20 |-> Null, sma50 |-> Null, sma200 |-> Null, rsi14 |-> Null, atr14 |-> Null,
          rsVsSpy |-> Null]
    ELSE [sma20 |-> computeSMA(bars, SmaShort),
          sma50 |-> IF EnoughBars(Len(bars), SmaMid) THEN computeSMA(bars, SmaMid) ELSE Null,
          sma200 |-> IF EnoughBars(Len(bars), SmaLong) THEN computeSMA(bars, SmaLong) ELSE Null,
          rsi14 |-> computeRSI(bars, IndicatorPeriod),
          atr14 |-> computeATR(bars, IndicatorPeriod),
          rsVsSpy |-> IF /\ spyBars # NoRow
                         /\ Len(spyBars) >= RS_LOOKBACK_DAYS
                         /\ Len(bars) >= RS_LOOKBACK_DAYS
                      THEN Num(computeRelativeStrength(bars, spyBars, RS_LOOKBACK_DAYS))
                      ELSE Null]

\* computeFeatures(symbol, asOfDate, spyBars) over the symbol's stored history
computeFeatures(history, spyBars) == computeFeaturesOf(LastN(history, MaxBars), spyBars)

----------------------------------------------------------------------------
(* computeFeatures as a function of the stored bars *)

BarCounts == {0, 1, 14, 15, 16, 19, 20, 21, 49, 50, 51, 199, 200, 201}
BarPatterns == {"flat", "up", "down", "zigzag"}
BarSpreads == {1, 4}

CloseAt(pattern, i) ==
    CASE pattern = "flat" -> 50
      [] pattern = "up" -> 50 + i
      [] pattern = "down" -> 300 - i
      [] pattern = "zigzag" -> 50 + 3 * (i % 2)

\* a stored history of count daily bars, oldest first
History(count, pattern, spread) ==
    [i \in 1..count |-> [close |-> CloseAt(pattern, i),
                          high |-> CloseAt(pattern, i) + spread,
                          low |-> CloseAt(pattern, i) - spread]]

SpyInputs == {NoRow} \cup [count : {19, 200}, pattern : {"flat", "up"}]

SpyBarsOf(spy) == IF spy = NoRow THEN NoRow ELSE History(spy.count, spy.pattern, 1)

FeatureInputs == [count : BarCounts, pattern : BarPatterns, spread : BarSpreads, spy : SpyInputs]

\* the first pass of computeFeaturesForUniverse for one symbol: its latest
\* RS_LOOKBACK_DAYS + 1 bars, and the return between the first and the last
\* of them when there are at least RS_LOOKBACK_DAYS; bars counts the window
return20d(bars) ==
    LET chronoBars == LastN(bars, RS_LOOKBACK_DAYS + 1)
    IN  [bars |-> Len(chronoBars),
         ret |-> IF Len(chronoBars) >= RS_LOOKBACK_DAYS
                 THEN Num(ReturnOver(chronoBars)) ELSE Null]

\* and the benchmark's return over its latest RS_LOOKBACK_DAYS bars
spyReturn20d(spyBarsChronological) ==
    LET spyRecent == LastN(spyBarsChronological, RS_LOOKBACK_DAYS)
    IN  [bars |-> Len(spyRecent),
         ret |-> IF Len(spyBarsChronological) >= RS_LOOKBACK_DAYS
                 THEN ReturnOver(spyRecent) ELSE Rat(0, 1)]

InitFeatures ==
    /\ SysInit
    /\ probe \in {[op |-> "features", in |-> i, out |-> Pending] : i \in FeatureInputs}
               \cup {[op |-> "returns", in |-> i, out |-> Pending] :
                        i \in {f \in FeatureInputs : f.spy # NoRow}}

ComputeFeaturesCall ==
    /\ probe.op = "features"
    /\ probe.out = Pending
    /\ probe' = [probe EXCEPT !.out = computeFeatures(
                                          History(probe.in.count, probe.in.pattern,
                                                  probe.in.spread),
                                          SpyBarsOf(probe.in.spy))]
    /\ UNCHANGED sysvars

\* the returns the batch gathers for a symbol and for SPY
GatherReturnsCall ==
    /\ probe.op = "returns"
    /\ probe.out = Pending
    /\ probe' = [probe EXCEPT !.out =
                    [stock |-> return20d(History(probe.in.count, probe.in.pattern,
                                                 probe.in.spread)),
                     spy |-> spyReturn20d(SpyBarsOf(probe.in.spy))]]
    /\ UNCHANGED sysvars

NextFeatures == ComputeFeaturesCall \/ GatherReturnsCall

SpecFeatures == InitFeatures /\ [][NextFeatures]_vars

FeaturesDone == probe.op = "features" /\ probe.out # Pending

\* C11: with fewer than 20 bars sma20 is null, with fewer than 50 sma50 is
\* null, with fewer than 200 sma200 is null, and with fewer than 15 bars
\* rsi14 and atr14 are null
C11_ShortHistoryIsNull ==
    FeaturesDone =>
        /\ probe.in.count < 20 => probe.out.sma20 = Null
        /\ probe.in.count < 50 => probe.out.sma50 = Null
        /\ probe.in.count < 200 => probe.out.sma200 = Null
        /\ probe.in.count < 15 => (probe.out.rsi14 = Null /\ probe.out.atr14 = Null)

\* 49 bars: sma20 is computed, sma50 and sma200 are not
C11_Witness ==
    /\ FeaturesDone
    /\ probe.in.count = 49 /\ probe.in.pattern = "flat"
    /\ probe.out.sma20 = Num(Rat(50, 1))
    /\ probe.out.sma50 = Null
    /\ probe.out.sma200 = Null

\* C12: with at least 15 bars rsi14 and atr14 are the computed RSI(14) and
\* ATR(14), not null
C12_IndicatorsFromFifteenBars ==
    (FeaturesDone /\ probe.in.count >= 15) =>
        /\ probe.out.rsi14 # Null
        /\ probe.out.atr14 # Null

----------------------------------------------------------------------------
(* engine/features.ts: the ranking pass of the batch *)

\* the position of a symbol in the list the batch was called with
InputPosition(b, s) == CHOOSE i \in 1..Len(b.symbols) : b.symbols[i] = s

\* whether the batch ranked the symbol
Ranked(b, s) == \E i \in 1..Len(b.ranked) : b.ranked[i].symbol = s

\* C13: after the ranking pass of computeFeaturesForUniverse, for every number
\* of ranked symbols (one included), the ratios are ranked ascending with equal
\* ratios in input order, and every ranked symbol's rsVsSpy is a number in
\* [0,100] equal to rank/(count-1)*100, the lowest ratio at 0, the highest at 100
C13_RankedPercentileInRange ==
    (FeaturesBatchDone /\ ~lastBatch.threw) =>
        /\ \A i, j \in 1..Len(lastBatch.ranked) :
              i < j =>
                /\ RLe(lastBatch.ranked[i].rsRatio, lastBatch.ranked[j].rsRatio)
                /\ REq(lastBatch.ranked[i].rsRatio, lastBatch.ranked[j].rsRatio) =>
                      InputPosition(lastBatch, lastBatch.ranked[i].symbol)
                          < InputPosition(lastBatch, lastBatch.ranked[j].symbol)
        /\ \A i \in 1..Len(lastBatch.ranked) :
              lastBatch.ranked[i].symbol \in Range(lastBatch.persisted) =>
                /\ IsNum(featureRows[lastBatch.ranked[i].symbol].rsVsSpy)
                /\ RLe(Rat(0, 1), featureRows[lastBatch.ranked[i].symbol].rsVsSpy.v)
                /\ RLe(featureRows[lastBatch.ranked[i].symbol].rsVsSpy.v, Rat(100, 1))
                /\ Len(lastBatch.ranked) > 1 =>
                      REq(featureRows[lastBatch.ranked[i].symbol].rsVsSpy.v,
                          Rat((i - 1) * 100, Len(lastBatch.ranked) - 1))

\* C14: every non-null rsVsSpy that computeFeaturesForUniverse persists is the
\* symbol's rank among the gathered returns, never the value computeFeatures
\* derived from the symbol alone
C14_PersistedRsIsCrossSectional ==
    (FeaturesBatchDone /\ ~lastBatch.threw) =>
        \A s \in Range(lastBatch.persisted) :
            featureRows[s].rsVsSpy # Null => Ranked(lastBatch, s)

----------------------------------------------------------------------------
(* engine/scoring.ts: the components and the projection of one result *)

\* scoreCandidate returned a result, from a feature record or without one
ScoreReturned ==
    /\ probe.op = "score"
    /\ probe.out # Pending
    /\ ~probe.out.threw

\* the share of the maximum that the bands of scoreDrawdownRisk give an RSI,
\* in tenths
RsiBandTenths(rsi) ==
    IF RLt(rsi, Rat(30, 1)) THEN 3
    ELSE IF RLt(Rat(70, 1), rsi) THEN 4
    ELSE IF RLe(Rat(40, 1), rsi) /\ RLe(rsi, Rat(60, 1)) THEN 9
    ELSE 5

\* C15: for every non-null percentile p in 0..100, p = 0 included, the
\* relative-strength component is max * p / 100 (to the whole point the
\* function rounds to): 0 at p = 0, the full 20 at p = 100
C15_RelativeStrengthLinear ==
    (ScoreDone /\ IsNum(probe.in.features.rsVsSpy)) =>
        /\ probe.out.components["relativeStrength"]
              = 100 * MathRound(DEFAULT_WEIGHTS.relativeStrength
                                    * probe.in.features.rsVsSpy.v[1],
                                100 * probe.in.features.rsVsSpy.v[2])
        /\ probe.in.features.rsVsSpy = NumR(0, 1) =>
              probe.out.components["relativeStrength"] = 0
        /\ probe.in.features.rsVsSpy = NumR(100, 1) =>
              probe.out.components["relativeStrength"] = 100 * DEFAULT_WEIGHTS.relativeStrength

\* C16: for every non-null rsi14 in [0,100], rsi14 = 0 included, the
\* drawdown-risk component is the share of the maximum its band gives (to the
\* whole point the function rounds to): 0.3 below 30, 0.4 above 70, 0.9 in
\* [40,60], 0.5 otherwise; only a null rsi14 takes the missing-data fallback
C16_DrawdownRiskByBand ==
    (ScoreDone /\ IsNum(probe.in.features.rsi14)) =>
        probe.out.components["drawdownRisk"]
            = RoundCp(DEFAULT_WEIGHTS.drawdownRisk,
                      RsiBandTenths(probe.in.features.rsi14.v), 10)

\* C17: every result scoreCandidate returns, with or without a feature
\* record, has horizonDays 40 above a swingScore of 70, 30 above 50, else 20,
\* and confidence HIGH / MEDIUM / LOW on the same thresholds
C17_HorizonFollowsScore ==
    ScoreReturned =>
        /\ probe.out.projection.horizonDays = HorizonDays(probe.out.swingScore)
        /\ probe.out.projection.confidence = Confidence(probe.out.swingScore)
        /\ probe.out.projection.horizonDays \in {20, 30, 40}
        /\ probe.out.projection.confidence = "HIGH" <=> probe.out.projection.horizonDays = 40
        /\ probe.out.projection.confidence = "MEDIUM" <=> probe.out.projection.horizonDays = 30
        /\ probe.out.projection.confidence = "LOW" <=> probe.out.projection.horizonDays = 20

----------------------------------------------------------------------------
(* engine/scoring.ts: a batch symbol without a feature record *)

\* scoreCandidate finds no Feature row for the symbol (findFirst returns null)
NoFeatureRecord(s) == ~MarkedDefensePrimary(s) /\ featureRows[s] = NoRow

\* C18: when a symbol of the batch has no feature record, scoreUniverse
\* records an error for that symbol and goes on; the symbol is not counted as
\* scored and no Score row is written for it
C18_MissingFeaturesIsAnError ==
    ScoresBatchDone =>
        \A s \in Range(lastBatch.symbols) :
            NoFeatureRecord(s) =>
                /\ s \in ErrorSymbols(lastBatch)
                /\ s \notin Range(lastBatch.persisted)
                /\ \A i \in 1..Len(lastBatch.topScores) : lastBatch.topScores[i].symbol # s
                /\ scoreRows[s] = NoRow

----------------------------------------------------------------------------
(* engine/signals.ts: the symbol a rotation names *)

----------------------------------------------------------------------------
(* generateSignalIfHolding as a function of topScores, the holding, the     *)
(* price and the Signal row of the day                                      *)

SignalScores == {0, 5000, 8000}

\* what scoreUniverse returns as topScores: distinct symbols, scores descending
SignalTopScores ==
    {t \in UNION {[1..n -> [symbol : Symbols, score : SignalScores]] : n \in 0..NumSymbols} :
        \A i, j \in 1..Len(t) :
            i < j => t[i].symbol # t[j].symbol /\ t[i].score >= t[j].score}

\* the row an earlier run of the same day left: none, or a ROTATE
SignalPriorRows ==
    {NoRow,
     [currentSymbol |-> SymbolNames[1], sellSignalLevel |-> "NONE",
      rotateRecommendation |-> "ROTATE", rotateToSymbol |-> SymbolNames[2],
      explainJson |-> [asymmetry |-> Rat(3, 2), reasons |-> 2],
      taxImpactJson |-> NoAlternative.taxImpact]}

SignalInputs ==
    [topScores : SignalTopScores,
     portfolio : {Holding(s, d, p) : s \in Symbols, d \in EntryDates, p \in HoldingPrices},
     now : JobClocks, quote : Quotes, row : SignalPriorRows]

InitSignal ==
    /\ SysInit
    /\ probe \in {[op |-> "signal", in |-> i, out |-> Pending] : i \in SignalInputs}

GenerateSignalCall ==
    /\ probe.op = "signal"
    /\ probe.out = Pending
    /\ \E currentPrice \in {IF probe.in.quote = Null THEN probe.in.portfolio.entryPrice.v
                            ELSE probe.in.quote.v} :
          probe' = [probe EXCEPT !.out =
              [rotation |->
                   rotationFor(probe.in.now, probe.in.portfolio, currentPrice,
                       SelectSeq(probe.in.topScores,
                                 LAMBDA t : t.symbol = probe.in.portfolio.currentSymbol),
                       SelectSeq(probe.in.topScores,
                                 LAMBDA t : IsAlternative(t, probe.in.portfolio.currentSymbol))),
               row |-> generateSignal(probe.in.now, probe.in.portfolio, currentPrice,
                                      probe.in.topScores, featureRows, probe.in.row)]]
    /\ UNCHANGED sysvars

NextSignal == GenerateSignalCall

SpecSignal == InitSignal /\ [][NextSignal]_vars

SignalDone == probe.op = "signal" /\ probe.out # Pending

\* C20: when topScores holds no symbol other than the current holding, the
\* rotation recommendation is HOLD with the reason "No alternative
\* candidates" and no rotateToSymbol, and the signal of the day is written
C20_NoAlternativeIsHold ==
    (SignalDone /\ \A i \in 1..Len(probe.in.topScores) :
                      probe.in.topScores[i].symbol = probe.in.portfolio.currentSymbol) =>
        /\ probe.out.rotation.recommendation = "HOLD"
        /\ probe.out.rotation.reasons = <<"No alternative candidates">>
        /\ probe.out.rotation.rotateToSymbol = NoSymbol
        /\ probe.out.row.rotateRecommendation = "HOLD"
        /\ probe.out.row.currentSymbol = probe.in.portfolio.currentSymbol

\* the holding is the only scored symbol
C20_Witness ==
    /\ SignalDone
    /\ probe.in.portfolio.currentSymbol = SymbolNames[1]
    /\ probe.in.topScores = <<[symbol |-> SymbolNames[1], score |-> 8000]>>
    /\ probe.out.rotation = NoAlternative
    /\ probe.out.row.rotateRecommendation = "HOLD"

----------------------------------------------------------------------------
(* engine/signals.ts: the Signal row after a recomputation *)

\* C21: after persistSignal calls for the same asOfDate the one Signal row of
\* that date equals the result of the last call in every field; a HOLD
\* persisted after a ROTATE leaves rotateRecommendation HOLD and no
\* rotateToSymbol
C21_RowIsLastResult ==
    SignalDone =>
        /\ probe.out.row.currentSymbol = probe.in.portfolio.currentSymbol
        /\ probe.out.row.rotateRecommendation = probe.out.rotation.recommendation
        /\ probe.out.row.rotateToSymbol = probe.out.rotation.rotateToSymbol
        /\ probe.out.row.taxImpactJson = probe.out.rotation.taxImpact
        /\ probe.out.rotation.recommendation = "HOLD" =>
              probe.out.row.rotateToSymbol = NoSymbol

----------------------------------------------------------------------------
(* scoreUniverse run twice over unchanged Ticker and Feature tables *)

RescoreFeatureRows ==
    {NoRow, persistFeatures(NoRow, NullTech), persistFeatures(NoRow, FullTech),
     persistFeatures(NoRow, [FullTech EXCEPT !.rsVsSpy = NumR(100, 1)])}

InitRescore ==
    /\ tickers \in [Symbols -> BatchTickers]
    /\ featureRows \in [Symbols -> RescoreFeatureRows]
    /\ scoreRows = [s \in Symbols |-> NoRow]
    /\ signalRow = NoRow
    /\ portfolio = NoRow
    /\ jobs = [j \in 1..MaxRuns |-> [pc |-> "idle", universe |-> <<>>, topScores |-> <<>>]]
    /\ edits = 0
    /\ script = [pc |-> "idle", symbols |-> <<>>, runs |-> 0]
    /\ lastBatch = NoRow
    /\ probe = [op |-> "rescore", runs |-> 0, symbols |-> <<>>, rows |-> <<>>, results |-> <<>>]

\* one scoreUniverse(symbols, asOfDate) of the same symbols and date; the
\* rows and the results of scoreCandidate after each run are kept in probe
ScoreUniverseRun ==
    /\ probe.op = "rescore"
    /\ probe.runs < 2
    /\ \E symbols \in IF probe.runs = 0 THEN SymbolLists ELSE {probe.symbols} :
        \E r \in {scoreUniverse(symbols, {}, tickers, featureRows, scoreRows)} :
            /\ scoreRows' = r.rows
            /\ probe' = [probe EXCEPT
                  !.runs = @ + 1,
                  !.symbols = symbols,
                  !.rows = Append(@, r.rows),
                  !.results = Append(@, [s \in Range(symbols) |->
                                  scoreCandidate(tickers[s], featureRows[s], DEFAULT_WEIGHTS)])]
    /\ UNCHANGED <<tickers, featureRows, signalRow, portfolio, jobs, edits, script, lastBatch>>

NextRescore == ScoreUniverseRun

SpecRescore == InitRescore /\ [][NextRescore]_vars

----------------------------------------------------------------------------
(* engine/universe.ts: a manual exclusion across later edits *)

\* the Ticker row excludeDefenseTicker leaves
ManuallyExcluded(s) ==
    /\ tickers[s] # NoRow
    /\ tickers[s].defenseClassification = "DEFENSE_PRIMARY"
    /\ tickers[s].manualOverride

----------------------------------------------------------------------------
(* The dashboard: the signal shown as current *)

\* prisma.signal.findFirst({ orderBy: { asOfDate: "desc" } }) of the
\* Dashboard, rendered whenever it is found, whatever the portfolio holds
latestSignal(row) == row

\* C24: whenever no Holding is set, no stored Signal is displayed as the
\* current signal
C24_NoSignalWithoutHolding ==
    ~HasHolding(portfolio) => latestSignal(signalRow) = NoRow

----------------------------------------------------------------------------
(* tax/rotation-cost.ts: shouldWaitForLongTerm *)

shouldWaitForLongTerm(impact, bestCandidateEdge) ==
    LET potentialSavings ==
            RMul(impact.estimatedGainPct, RSub(SHORT_TERM_TAX_RATE, LONG_TERM_TAX_RATE))
    IN  IF impact.isLongTerm THEN FALSE
        ELSE IF RLe(impact.estimatedGainPct, Rat(0, 1)) THEN FALSE
        ELSE IF impact.daysToLongTerm <= 30
        THEN RLt(bestCandidateEdge,
                 RAdd(RMul(potentialSavings, Rat(3, 2)), TRANSACTION_BUFFER))
        ELSE IF impact.daysToLongTerm <= 60
        THEN RLt(bestCandidateEdge,
                 RAdd(RMul(potentialSavings, Rat(2, 1)), TRANSACTION_BUFFER))
        ELSE FALSE

\* impacts as calculateTaxDrag returns them, 65 to 0 days from long-term and
\* past it, with candidate edges of 0% to 30%
InitWait ==
    /\ SysInit
    /\ probe \in {[op |-> "wait",
                   in |-> [impact |-> calculateTaxDrag(h * TicksPerDay, 0, p[1], p[2]),
                           bestCandidateEdge |-> Rat(e, 100)],
                   out |-> Pending] :
                     h \in {300, 305, 320, 334, 335, 350, 364, 365, 400},
                     p \in {<<100, 90>>, <<100, 100>>, <<100, 110>>, <<100, 150>>},
                     e \in 0..30}

ShouldWaitForLongTermCall ==
    /\ probe.op = "wait"
    /\ probe.out = Pending
    /\ probe' = [probe EXCEPT !.out =
                    [wait |-> shouldWaitForLongTerm(probe.in.impact, probe.in.bestCandidateEdge)]]
    /\ UNCHANGED sysvars

NextWait == ShouldWaitForLongTermCall

SpecWait == InitWait /\ [][NextWait]_vars

\* C25: for a position with a gain and not yet long-term, if waiting is
\* advised at a daysToLongTerm in 31..60 then it is also advised at every
\* daysToLongTerm of at most 30 with the same gain and edge (the threshold
\* within 30 days is the higher one)
C25_CloserMeansHigherThreshold ==
    (/\ probe.op = "wait" /\ probe.out # Pending
     /\ ~probe.in.impact.isLongTerm
     /\ probe.in.impact.estimatedGainPct[1] > 0
     /\ probe.in.impact.daysToLongTerm \in 31..60
     /\ probe.out.wait) =>
        \A d \in 1..30 :
            shouldWaitForLongTerm([probe.in.impact EXCEPT !.daysToLongTerm = d,
                                                          !.holdingDays = LongTermDays - d],
                                  probe.in.bestCandidateEdge)

----------------------------------------------------------------------------
(* engine/features.ts: the windows of the two returns of a ratio *)

\* C26: the symbol's return and SPY's return of a ratio are taken over the
\* same trailing window, the same number of bars, however many bars the
\* symbol has; a symbol with SPY's own bars then has SPY's own return
C26_SameWindowForBothReturns ==
    (/\ probe.op = "returns" /\ probe.out # Pending
     /\ probe.out.stock.ret # Null
     /\ probe.in.spy.count >= RS_LOOKBACK_DAYS) =>
        /\ probe.out.stock.bars = probe.out.spy.bars
        /\ (/\ probe.in.count = probe.in.spy.count
            /\ probe.in.pattern = probe.in.spy.pattern) =>
                 probe.out.stock.ret = Num(probe.out.spy.ret)

----------------------------------------------------------------------------
(* engine/signals.ts: the range of the asymmetry *)

\* C27: for every positive price and every feature record (atr14 null or
\* positive, tailRiskScore14d in 0..10, any earnings flags) the asymmetry of
\* computeSellSignal is positive and at most 1.5, so the level is never NONE
\* and the asymmetry is never the sentinel 10
C27_AsymmetryAtMostThreeHalves ==
    SellDone =>
        /\ probe.out.asymmetry[1] > 0
        /\ RLe(probe.out.asymmetry, Rat(3, 2))
        /\ probe.out.asymmetry # Rat(10, 1)
        /\ probe.out.downsideTailPct[1] > 0
        /\ probe.out.sellSignalLevel \in {"WATCH", "SELL", "STRONG_SELL"}

\* the largest tail risk score with earnings inside five days: 1.5 / (2 * 1.5)
C27_Witness ==
    /\ SellDone
    /\ probe.in.features # NoRow
    /\ probe.in.features.tailRiskScore14d = NumR(100, 10)
    /\ probe.in.features.earningsWithin5d
    /\ probe.out.asymmetry = Rat(1, 2)
    /\ probe.out.sellSignalLevel = "STRONG_SELL"

----------------------------------------------------------------------------
(* The Feature row of one (symbol, date) under both of its writers *)

\* prisma.feature.upsert of persistSemanticFeatures (semantics/aggregate.ts):
\* update and create write the semantic columns only
persistSemanticFeatures(row, features) ==
    IF row = NoRow
    THEN [sma20 |-> Null, sma50 |-> Null, sma200 |-> Null,
          rsi14 |-> Null, atr14 |-> Null, rsVsSpy |-> Null,
          catalystMomentum |-> features.catalystMomentum,
          tailRiskScore14d |-> features.tailRiskScore14d,
          earningsWithin5d |-> features.earningsWithin5d,
          earningsWithin10d |-> features.earningsWithin10d]
    ELSE [row EXCEPT !.catalystMomentum = features.catalystMomentum,
                     !.tailRiskScore14d = features.tailRiskScore14d,
                     !.earningsWithin5d = features.earningsWithin5d,
                     !.earningsWithin10d = features.earningsWithin10d]

SemanticChoices ==
    [catalystMomentum : {Null, NumR(1, 2)}, tailRiskScore14d : {NumR(0, 1), NumR(5, 1)},
     earningsWithin5d : BOOLEAN, earningsWithin10d : {TRUE}]

\* probe keeps, per symbol, what each writer last wrote, and the last writer
InitMerge ==
    /\ SysInit
    /\ probe = [op |-> "merge", technical |-> [s \in Symbols |-> NoRow],
                semantic |-> [s \in Symbols |-> NoRow], last |-> "none"]

PersistFeaturesCall ==
    /\ probe.op = "merge"
    /\ edits < MaxEdits
    /\ \E s \in Symbols, f \in {NullTech, FullTech, [FullTech EXCEPT !.rsVsSpy = NumR(0, 1)]} :
          /\ featureRows' = [featureRows EXCEPT ![s] = persistFeatures(@, f)]
          /\ probe' = [probe EXCEPT !.technical[s] = f, !.last = "technical"]
    /\ edits' = edits + 1
    /\ UNCHANGED <<tickers, scoreRows, signalRow, portfolio, jobs, script, lastBatch>>

PersistSemanticFeaturesCall ==
    /\ probe.op = "merge"
    /\ edits < MaxEdits
    /\ \E s \in Symbols, f \in SemanticChoices :
          /\ featureRows' = [featureRows EXCEPT ![s] = persistSemanticFeatures(@, f)]
          /\ probe' = [probe EXCEPT !.semantic[s] = f, !.last = "semantic"]
    /\ edits' = edits + 1
    /\ UNCHANGED <<tickers, scoreRows, signalRow, portfolio, jobs, script, lastBatch>>

NextMerge == PersistFeaturesCall \/ PersistSemanticFeaturesCall

SpecMerge == InitMerge /\ [][NextMerge]_vars

\* C28: after any interleaving of persistFeatures and persistSemanticFeatures
\* on one (symbol, date) key the one Feature row of the key holds the
\* technical values of the last persistFeatures and the semantic values of
\* the last persistSemanticFeatures, whichever ran first; what a writer has
\* not written yet is as the create left it
C28_WritersKeepEachOthersFields ==
    probe.op = "merge" =>
        \A s \in Symbols :
            /\ featureRows[s] = NoRow <=>
                  (probe.technical[s] = NoRow /\ probe.semantic[s] = NoRow)
            /\ featureRows[s] # NoRow =>
                  /\ [n \in DOMAIN NullTech |-> featureRows[s][n]]
                        = IF probe.technical[s] = NoRow THEN NullTech ELSE probe.technical[s]
                  /\ probe.semantic[s] # NoRow =>
                        [n \in DOMAIN probe.semantic[s] |-> featureRows[s][n]]
                            = probe.semantic[s]
                  /\ probe.semantic[s] = NoRow =>
                        /\ featureRows[s].catalystMomentum = Null
                        /\ featureRows[s].tailRiskScore14d = Null
                        /\ ~featureRows[s].earningsWithin5d
                        /\ ~featureRows[s].earningsWithin10d

\* semantic values written first, technical values last, both still there
C28_Witness ==
    /\ probe.op = "merge"
    /\ probe.last = "technical"
    /\ edits = 2
    /\ featureRows[SymbolNames[1]] # NoRow
    /\ featureRows[SymbolNames[1]].tailRiskScore14d = NumR(5, 1)
    /\ featureRows[SymbolNames[1]].earningsWithin5d
    /\ featureRows[SymbolNames[1]].sma50 = NumR(20, 1)
    /\ featureRows[SymbolNames[2]] = NoRow

----------------------------------------------------------------------------
(* runDailyJob and its JobRun record *)

\* a null Json column, a null summary or error argument
NoJson == "null"

\* the row prisma.jobRun.create makes
NewJobRun == [status |-> "RUNNING", summaryJson |-> NoJson, errorJson |-> NoJson, finished |-> FALSE]

\* a completeJob that never writes the status
completeJobMut(rows, jobId, status, summary, error) ==
    [rows EXCEPT ![jobId] = [@ EXCEPT !.finished = TRUE]]

\* completeJob: one jobRun.update of the row with this id
completeJob(rows, jobId, status, summary, error) ==
    [rows EXCEPT ![jobId] =
        [status |-> status,
         summaryJson |-> summary,
         errorJson |-> IF error # NoJson THEN error ELSE NoJson,
         finished |-> TRUE]]

IdleRun ==
    [pc |-> "idle", id |-> 0, marketOpen |-> "unknown", loaded |-> FALSE,
     summary |-> NoJson, error |-> NoJson, stepThrew |-> FALSE,
     updateFailed |-> FALSE, rethrown |-> NoJson]

JobTickers == {NoRow, TickerRow(TRUE, "NON_DEFENSE", FALSE)}

InitJob ==
    /\ tickers \in [Symbols -> JobTickers]
    /\ featureRows = [s \in Symbols |-> NoRow]
    /\ scoreRows = [s \in Symbols |-> NoRow]
    /\ signalRow = NoRow
    /\ portfolio = NoRow
    /\ jobs = [j \in 1..MaxRuns |-> [pc |-> "idle", universe |-> <<>>, topScores |-> <<>>]]
    /\ edits = 0
    /\ script = [pc |-> "idle", symbols |-> <<>>, runs |-> 0]
    /\ lastBatch = NoRow
    /\ probe = [op |-> "job", runs |-> [j \in 1..MaxRuns |-> IdleRun], jobRuns |-> <<>>]

\* runDailyJob is called: jobRun.create returns the new row
JobRunCreate(j) ==
    /\ probe.op = "job"
    /\ probe.runs[j].pc = "idle"
    /\ probe' = [probe EXCEPT
          !.jobRuns = Append(@, NewJobRun),
          !.runs[j] = [@ EXCEPT !.pc = "market", !.id = Len(probe.jobRuns) + 1]]
    /\ UNCHANGED sysvars

\* step 1: checkMarketOpen; a closed market goes to completeJob with the
\* skipped summary
CheckMarketOpen(j) ==
    /\ probe.op = "job"
    /\ probe.runs[j].pc = "market"
    /\ \E isMarketOpen \in BOOLEAN :
          probe' = [probe EXCEPT !.runs[j] =
                      IF isMarketOpen
                      THEN [@ EXCEPT !.pc = "universe", !.marketOpen = "open"]
                      ELSE [@ EXCEPT !.pc = "complete", !.marketOpen = "closed",
                                     !.summary = "skipped: Market closed"]]
    /\ UNCHANGED sysvars

\* step 2: the universe is read, or the read throws; an empty universe goes
\* to completeJob with the skipped summary
LoadTradableUniverse(j) ==
    /\ probe.op = "job"
    /\ probe.runs[j].pc = "universe"
    /\ \E threw \in BOOLEAN, universe \in {getTradableUniverse(tickers)} :
          probe' = [probe EXCEPT !.runs[j] =
                      IF threw
                      THEN [@ EXCEPT !.pc = "catch", !.error = "universe", !.stepThrew = TRUE]
                      ELSE IF universe = <<>>
                      THEN [@ EXCEPT !.pc = "complete", !.loaded = TRUE,
                                     !.summary = "skipped: Empty universe"]
                      ELSE [@ EXCEPT !.pc = "steps", !.loaded = TRUE]]
    /\ UNCHANGED sysvars

\* steps 3 to 7 as far as the JobRun goes: they return, or one of them throws
RunSteps(j) ==
    /\ probe.op = "job"
    /\ probe.runs[j].pc = "steps"
    /\ \E threw \in BOOLEAN :
          probe' = [probe EXCEPT !.runs[j] =
                      IF threw
                      THEN [@ EXCEPT !.pc = "catch", !.error = "step", !.stepThrew = TRUE]
                      ELSE [@ EXCEPT !.pc = "complete", !.summary = "tickersProcessed"]]
    /\ UNCHANGED sysvars

\* completeJob(jobRun.id, "SUCCESS", summary) in the try block: the update is
\* made and runDailyJob returns, or the update throws into the catch block
CompleteSuccess(j) ==
    /\ probe.op = "job"
    /\ probe.runs[j].pc = "complete"
    /\ \E updated \in BOOLEAN :
          probe' = IF updated
                   THEN [probe EXCEPT
                           !.jobRuns = completeJob(@, probe.runs[j].id, "SUCCESS",
                                                   probe.runs[j].summary, NoJson),
                           !.runs[j] = [@ EXCEPT !.pc = "returned"]]
                   ELSE [probe EXCEPT
                           !.runs[j] = [@ EXCEPT !.pc = "catch", !.error = "update",
                                                 !.updateFailed = TRUE]]
    /\ UNCHANGED sysvars

\* the catch block: completeJob(jobRun.id, "FAILED", null, error) and the
\* rethrow; when this update throws, its error is what runDailyJob rejects with
CompleteFailed(j) ==
    /\ probe.op = "job"
    /\ probe.runs[j].pc = "catch"
    /\ \E updated \in BOOLEAN :
          probe' = IF updated
                   THEN [probe EXCEPT
                           !.jobRuns = completeJob(@, probe.runs[j].id, "FAILED",
                                                   NoJson, probe.runs[j].error),
                           !.runs[j] = [@ EXCEPT !.pc = "rejected",
                                                 !.rethrown = probe.runs[j].error]]
                   ELSE [probe EXCEPT
                           !.runs[j] = [@ EXCEPT !.pc = "rejected", !.rethrown = "update",
                                                 !.updateFailed = TRUE]]
    /\ UNCHANGED sysvars

\* what an invocation that has created its row does next
JobStep(j) ==
    \/ CheckMarketOpen(j) \/ LoadTradableUniverse(j) \/ RunSteps(j)
    \/ CompleteSuccess(j) \/ CompleteFailed(j)

NextJob == \E j \in 1..MaxRuns : JobRunCreate(j) \/ JobStep(j)

\* every await of a started invocation settles, so the invocation goes on
SpecJob == InitJob /\ [][NextJob]_vars /\ \A j \in 1..MaxRuns : WF_vars(JobStep(j))

Started(j) == probe.runs[j].pc # "idle"

Ended(j) == probe.runs[j].pc \in {"returned", "rejected"}

JobRunOf(j) == probe.jobRuns[probe.runs[j].id]

FinalStatus == {"SUCCESS", "FAILED"}

\* one row per invocation, each invocation its own; an ended invocation whose
\* updates all succeeded left FAILED with the error it rethrew when a step
\* threw and SUCCESS otherwise; a closed market never loads the universe and
\* ends SUCCESS with the skipped summary
JobRunOutcome ==
    /\ Len(probe.jobRuns) = Cardinality({j \in 1..MaxRuns : Started(j)})
    /\ \A j, k \in 1..MaxRuns :
          (Started(j) /\ Started(k) /\ j # k) => probe.runs[j].id # probe.runs[k].id
    /\ \A j \in 1..MaxRuns :
          /\ (Started(j) /\ ~Ended(j) /\ ~probe.runs[j].updateFailed)
                => JobRunOf(j).status = "RUNNING"
          /\ (Ended(j) /\ ~probe.runs[j].updateFailed) =>
                IF probe.runs[j].stepThrew
                THEN /\ JobRunOf(j).status = "FAILED"
                     /\ JobRunOf(j).errorJson = probe.runs[j].error
                     /\ probe.runs[j].pc = "rejected"
                     /\ probe.runs[j].rethrown = probe.runs[j].error
                ELSE /\ JobRunOf(j).status = "SUCCESS"
                     /\ probe.runs[j].pc = "returned"
          /\ probe.runs[j].marketOpen = "closed" =>
                /\ ~probe.runs[j].loaded
                /\ (Ended(j) /\ ~probe.runs[j].updateFailed) =>
                       /\ JobRunOf(j).status = "SUCCESS"
                       /\ JobRunOf(j).summaryJson = "skipped: Market closed"

\* the row of a started invocation is SUCCESS or FAILED, or an update of it
\* threw
Settled(j) ==
    /\ Started(j)
    /\ (probe.runs[j].updateFailed \/ JobRunOf(j).status \in FinalStatus)

\* jobRun.create adds one RUNNING row; a row that reached SUCCESS or FAILED is
\* never written again
JobRunStep ==
    /\ \A j \in 1..MaxRuns :
          (~Started(j) /\ Started(j)') =>
              /\ Len(probe'.jobRuns) = Len(probe.jobRuns) + 1
              /\ JobRunOf(j)' = NewJobRun
    /\ \A i \in 1..Len(probe.jobRuns) :
          probe.jobRuns[i].status \in FinalStatus => probe'.jobRuns[i] = probe.jobRuns[i]

\* C29: every runDailyJob invocation creates exactly one JobRun, RUNNING; when
\* its updates succeed the row eventually reaches SUCCESS or FAILED and is not
\* written afterwards: FAILED, with the error recorded and rethrown, if a step
\* threw, SUCCESS otherwise; a closed market ends SUCCESS with the skipped
\* summary and the universe is not loaded
C29_JobRunLifecycle ==
    /\ []JobRunOutcome
    /\ [][JobRunStep]_vars
    /\ \A j \in 1..MaxRuns :
          Started(j) ~> Settled(j)

\* one invocation skipped a closed market and returned, the other rejected
\* with the error of a step, and no update failed
C29_Witness ==
    /\ probe.op = "job"
    /\ \E j, k \in 1..MaxRuns :
          /\ probe.runs[j].pc = "returned" /\ probe.runs[j].marketOpen = "closed"
          /\ JobRunOf(j).status = "SUCCESS"
          /\ probe.runs[k].pc = "rejected" /\ probe.runs[k].error = "step"
          /\ ~probe.runs[k].updateFailed
          /\ JobRunOf(k).status = "FAILED"

----------------------------------------------------------------------------
(* withRetry *)

MaxRetriesBound == 4
BaseDelays == {1, 50, 1000}

\* String(error) of the errors fn rejects with
ErrorTexts ==
    {"Server has closed the connection", "Connection pool timeout", "read ECONNRESET",
     "Unique constraint failed", "connect ECONNREFUSED"}

\* String(error).includes(needle), for the three needles of withRetry
Includes(text, needle) ==
    CASE needle = "Server has closed the connection" -> text = "Server has closed the connection"
      [] needle = "Connection" -> text = "Connection pool timeout"
      [] needle = "ECONNRESET" -> text = "read ECONNRESET"

isConnectionError(text) ==
    \/ Includes(text, "Server has closed the connection")
    \/ Includes(text, "Connection")
    \/ Includes(text, "ECONNRESET")

RECURSIVE Pow2(_)
Pow2(n) == IF n = 0 THEN 1 ELSE 2 * Pow2(n - 1)

\* a catch block that rethrows only on the last attempt
RethrowsMut(text, attempt, maxRetries) == attempt = maxRetries - 1

\* the test of the catch block: the error is thrown on rather than retried
Rethrows(text, attempt, maxRetries) ==
    ~isConnectionError(text) \/ attempt = maxRetries - 1

\* what one invocation of fn settles with
FnOutcomes == {[ok |-> TRUE, text |-> "value"]} \cup {[ok |-> FALSE, text |-> t] : t \in ErrorTexts}

InitRetry ==
    /\ SysInit
    /\ \E maxRetries \in 0..MaxRetriesBound, baseDelay \in BaseDelays :
          probe = [op |-> "retry", maxRetries |-> maxRetries, baseDelay |-> baseDelay,
                   pc |-> "loop", attempt |-> 0, lastError |-> NoJson,
                   calls |-> <<>>, delays |-> <<>>, out |-> NoJson]

\* one pass of the loop body up to the sleep: fn is invoked and awaited; its
\* value is returned, or its error is thrown on, or the delay is computed.
\* The values and errors carry the number of the invocation they came from.
InvokeFn ==
    /\ probe.op = "retry"
    /\ probe.pc = "loop"
    /\ probe.attempt < probe.maxRetries
    /\ \E o \in FnOutcomes :
          \E r \in {[ok |-> o.ok, text |-> o.text, call |-> Len(probe.calls) + 1]} :
              probe' =
                  IF r.ok
                  THEN [probe EXCEPT !.calls = Append(@, r), !.pc = "returned", !.out = r]
                  ELSE IF Rethrows(r.text, probe.attempt, probe.maxRetries)
                  THEN [probe EXCEPT !.calls = Append(@, r), !.lastError = r,
                                     !.pc = "threw", !.out = r]
                  ELSE [probe EXCEPT !.calls = Append(@, r), !.lastError = r,
                                     !.pc = "sleep",
                                     !.delays = Append(@, probe.baseDelay * Pow2(probe.attempt))]
    /\ UNCHANGED sysvars

\* await sleep(delay) is over and the loop goes to the next attempt
Sleep ==
    /\ probe.op = "retry"
    /\ probe.pc = "sleep"
    /\ probe' = [probe EXCEPT !.pc = "loop", !.attempt = @ + 1]
    /\ UNCHANGED sysvars

\* the loop condition fails: throw lastError
LoopExit ==
    /\ probe.op = "retry"
    /\ probe.pc = "loop"
    /\ probe.attempt >= probe.maxRetries
    /\ probe' = [probe EXCEPT !.pc = "threw", !.out = probe.lastError]
    /\ UNCHANGED sysvars

NextRetry == InvokeFn \/ Sleep \/ LoopExit

\* fn and sleep settle
SpecRetry == InitRetry /\ [][NextRetry]_vars /\ WF_vars(NextRetry)

RetryDone == probe.pc \in {"returned", "threw"}

\* fn was invoked at most maxRetries times; every invocation but the last
\* failed with a connection error and was followed by a sleep of
\* baseDelay * 2^attempt; a return gives the value of the last invocation, a
\* throw the error of the last invocation, which is not a connection error
\* unless it is the maxRetries-th
RetryOutcome ==
    probe.maxRetries >= 1 =>
        /\ Len(probe.calls) <= probe.maxRetries
        /\ \A i \in 1..Len(probe.calls) :
              (i < Len(probe.calls) \/ probe.pc \in {"sleep", "loop"}) =>
                  /\ ~probe.calls[i].ok
                  /\ isConnectionError(probe.calls[i].text)
                  /\ i <= Len(probe.delays)
                  /\ probe.delays[i] = probe.baseDelay * Pow2(i - 1)
        /\ Len(probe.delays) <= Len(probe.calls)
        /\ RetryDone =>
              /\ Len(probe.calls) >= 1
              /\ Len(probe.delays) = Len(probe.calls) - 1
              /\ probe.out = probe.calls[Len(probe.calls)]
              /\ (probe.pc = "returned") = probe.out.ok
              /\ (probe.pc = "threw" /\ isConnectionError(probe.out.text))
                    => Len(probe.calls) = probe.maxRetries

\* C30: withRetry with maxRetries >= 1 ends after at most maxRetries
\* invocations of fn: it returns the first value, invokes fn again only after
\* a connection error and a wait of baseDelay * 2^attempt, throws any other
\* error at once, and throws the last error when every attempt failed
C30_RetryTerminates ==
    /\ []RetryOutcome
    /\ (probe.maxRetries >= 1) ~> RetryDone

\* three attempts: two connection errors, waits of 50 and 100, then the value
C30_Witness ==
    /\ probe.op = "retry"
    /\ probe.maxRetries = 3
    /\ probe.pc = "returned"
    /\ Len(probe.calls) = 3
    /\ probe.delays = <<50, 100>>

====
